---------------------------- MODULE Spec2Model ----------------------------
(***************************************************************************)
(* A model of the consequence engines of godels-sky:                       *)
(*   - WitnessReport and the delayed report queue of WitnessSystem         *)
(*     (source/WitnessSystem.h, source/WitnessSystem.cpp),                 *)
(*   - the per-system economic state machine SystemEconomy and the         *)
(*     cascade of events between linked systems of EconomicManager         *)
(*     (source/EconomicState.h, source/EconomicState.cpp),                 *)
(*   - the standing thresholds, daily decay and threshold crossings of     *)
(*     ReputationManager                                                   *)
(*     (source/ReputationManager.h, source/ReputationManager.cpp).         *)
(* Each subsystem has its own specification over its own variables; the    *)
(* variables of the other subsystems stay at their initial values.         *)
(***************************************************************************)
EXTENDS Integers, Sequences, FiniteSets, TLC

(***************************************************************************)
(* Bounds of the model.                                                    *)
(***************************************************************************)
\* Largest countdown (frames) a report is constructed with.
MaxFrames == 3
\* Number of reports queued in one run of the report queue.
MaxReports == 1

\* Number of daily ticks in one run of a system's economy.
MaxDays == 2
\* Number of RecordEvent, SetState and Clear calls in one run of a system's
\* economy.
MaxCalls == 2
\* Number of events recorded on one day in the merchant-loss scenario.
MaxDayEvents == 12
\* The rolling counters are doubles; the model keeps them as fixed-point
\* numbers with DecayDepth base-20 digits after the point, so that a value is
\* carried exactly through DecayDepth daily decays (0.85 = 17/20).
DecayDepth == 3

\* Number of daily ticks in the recovery scenario.
MaxRecoveryTicks == 26
\* Number of EconomicManager::RecordEvent calls in one run of the manager.
MaxManagerCalls == 1
\* Largest cascade radius a loaded configuration sets.
MaxRadius == 3

\* Number of daily ticks in one run of the reputation manager.
MaxRepDays == 2
\* Number of RecordChange, RecordGoodDeed, RecordAtrocity, Clear, Save and
\* SetReputation calls in one run of the reputation manager.
MaxRepCalls == 1

\* Largest number of ships in the list passed to CheckWitnesses.
MaxNearbyShips == 2

\* Number of Record calls in one run of an action log.
MaxLogRecords == 4
\* Number of GetOrCreate calls in one run of an encounter log.
MaxEncounters == 3
\* Number of daily ticks in one quiet run of a system's economy.
MaxQuietTicks == 160

\* The ships that can be listed as witnesses and reported destroyed.
Ships == {"s1", "s2"}

\* The witness lists a caller hands over in activeWitnesses.  The field is a
\* public std::vector<std::shared_ptr<Ship>>: it may be empty (the constructor
\* leaves it so) and nothing in the code removes repeated entries.
WitnessLists ==
    {<<>>, <<"s1">>, <<"s1", "s2">>, <<"s1", "s1">>}

\* The ships that occur in a witness list.
ShipsOf(witnesses) == {witnesses[i] : i \in DOMAIN witnesses}

(***************************************************************************)
(* WitnessReport (WitnessSystem.h:131-161).  A report is a record with the *)
(* fields the queue reads and writes; id is the identity of the object, so *)
(* that the copies held by the queue and returned by StepReports can be    *)
(* followed.                                                               *)
(***************************************************************************)
WitnessReport(id, frames, suppress, witnesses) ==
    [id |-> id, framesRemaining |-> frames, canBeSuppressed |-> suppress,
     activeWitnesses |-> witnesses]

\* WitnessReport::Step, with the framesRemaining test decrementing twice.
StepSkipping(r) ==
    LET f == IF r.framesRemaining > 0 THEN r.framesRemaining - 2
             ELSE r.framesRemaining
    IN  [report |-> [r EXCEPT !.framesRemaining = f], ret |-> f <= 0]

\* WitnessReport::Step that never decrements the countdown.
StepStuck(r) ==
    [report |-> r, ret |-> r.framesRemaining <= 0]

\* WitnessReport::Step: decrement a positive countdown, report whether it is
\* now at (or below) zero.
Step(r) ==
    LET f == IF r.framesRemaining > 0 THEN r.framesRemaining - 1
             ELSE r.framesRemaining
    IN  [report |-> [r EXCEPT !.framesRemaining = f], ret |-> f <= 0]

\* WitnessReport::AllWitnessesEliminated without the canBeSuppressed test.
AllWitnessesEliminatedAnyReport(r) ==
    r.activeWitnesses = <<>>

\* WitnessReport::AllWitnessesEliminated.
AllWitnessesEliminated(r) ==
    r.canBeSuppressed /\ r.activeWitnesses = <<>>

\* std::find_if followed by erase of the iterator found: the first entry that
\* equals ship is removed, later equal entries stay.
RECURSIVE EraseFirst(_, _)
EraseFirst(witnesses, ship) ==
    IF witnesses = <<>> THEN <<>>
    ELSE IF Head(witnesses) = ship THEN Tail(witnesses)
    ELSE <<Head(witnesses)>> \o EraseFirst(Tail(witnesses), ship)

\* WitnessReport::EliminateWitness: the report after the call and the value
\* returned.
EliminateWitness(r, ship) ==
    IF ~r.canBeSuppressed
    THEN [report |-> r, ret |-> FALSE]
    ELSE LET r2 == [r EXCEPT !.activeWitnesses = EraseFirst(@, ship)]
         IN  [report |-> r2, ret |-> AllWitnessesEliminated(r2)]

(***************************************************************************)
(* SystemEconomy (EconomicState.h:118-235, EconomicState.cpp).             *)
(*                                                                         *)
(* Counters (merchantLosses, pirateLosses, tradeVolume, smugglingLevel)    *)
(* are integers in units of 1/Scale.  A result that is not a multiple of   *)
(* 1/Scale is rounded to the nearest one, as double arithmetic rounds to   *)
(* the nearest representable value.                                        *)
(***************************************************************************)
Scale == 20 ^ DecayDepth

Min(a, b) == IF a <= b THEN a ELSE b
Max(a, b) == IF a >= b THEN a ELSE b

\* static_cast<int>(x): truncation toward zero of a / b (b > 0).
TruncDiv(a, b) == IF a >= 0 THEN a \div b ELSE -((-a) \div b)

\* x * 0.85 with the factor taken as 1.
DecayNone(n) == n

\* x * DAILY_COUNTER_DECAY (EconomicState.h:123), rounded to nearest.
Decay(n) ==
    LET a == IF n >= 0 THEN n ELSE -n
        d == (a \div 20) * 17 + ((a % 20) * 17 + 10) \div 20
    IN  IF n >= 0 THEN d ELSE -d

\* counter >= threshold, for an int threshold.
AtLeast(n, threshold) == n >= threshold * Scale

\* EconomicStateType (EconomicState.h:35-42).
EconomicStateType == {"STABLE", "BOOM", "BUST", "SHORTAGE", "SURPLUS", "LOCKDOWN"}

\* EconomicConfig with its default member initialisers (EconomicState.h:80-110);
\* only the fields the state machine reads.
DefaultConfig ==
    [boomRecoveryDays |-> 14, bustRecoveryDays |-> 14, shortageRecoveryDays |-> 7,
     surplusRecoveryDays |-> 7, lockdownRecoveryDays |-> 21,
     merchantLossThreshold |-> 10, pirateLossThreshold |-> 20,
     tradeVolumeThreshold |-> 5000, smugglingThreshold |-> 50,
     cascadeRadius |-> 2]

\* A configuration EconomicConfig::Load produces from a node that sets low
\* thresholds and recovery-day counts; each value passes Load's max(1, ...)
\* (EconomicState.cpp:47-64).
LowConfig ==
    [boomRecoveryDays |-> 2, bustRecoveryDays |-> 3, shortageRecoveryDays |-> 200,
     surplusRecoveryDays |-> 1, lockdownRecoveryDays |-> 1,
     merchantLossThreshold |-> 2, pirateLossThreshold |-> 2,
     tradeVolumeThreshold |-> 2, smugglingThreshold |-> 1,
     cascadeRadius |-> 1]

Configs == {DefaultConfig, LowConfig}

\* A SystemEconomy after construction (EconomicState.h:210-234).  Dates are
\* day numbers; 0 is the unset Date().  recentEventsSize is
\* recentEvents.size().  The headline strings (newsHeadline, newsDate) are
\* written for display and read by no operation; they are not part of the
\* record.
NewEconomy(config) ==
    [state |-> "STABLE", affectedCommodity |-> "", stateStrength |-> 0,
     stateChangeDate |-> 0,
     merchantLosses |-> 0, pirateLosses |-> 0, tradeVolume |-> 0,
     smugglingLevel |-> 0,
     recentEventsSize |-> 0, significantChange |-> FALSE,
     config |-> config]

\* SystemEconomy::Clear (EconomicState.cpp:260-274): everything but config.
ClearEconomy(e) == NewEconomy(e.config)

\* EconomicEventType (EconomicState.h:47-59), one type for each branch of the
\* switch in RecordEvent; RELIEF_DELIVERED takes the default branch.
EventTypes ==
    {"MERCHANT_DESTROYED", "PIRATE_DESTROYED", "TRADE_COMPLETED",
     "SMUGGLING_DETECTED", "RELIEF_DELIVERED"}

\* SystemEconomy::MAX_EVENT_HISTORY
MAX_EVENT_HISTORY == 100

\* SystemEconomy::RecordEvent (both overloads).
RecordEvent(e, type, magnitude) ==
    LET logged == [e EXCEPT !.recentEventsSize = Min(MAX_EVENT_HISTORY, @ + 1)]
        m == magnitude * Scale
    IN  CASE type = "MERCHANT_DESTROYED" -> [logged EXCEPT !.merchantLosses = @ + m]
          [] type = "PIRATE_DESTROYED" -> [logged EXCEPT !.pirateLosses = @ + m]
          [] type \in {"TRADE_COMPLETED", "LARGE_PURCHASE", "LARGE_SALE"} ->
                [logged EXCEPT !.tradeVolume = @ + m]
          [] type = "SMUGGLING_DETECTED" -> [logged EXCEPT !.smugglingLevel = @ + m]
          [] OTHER -> logged

\* SystemEconomy::SetState
SetState(e, newState, commodity, strength) ==
    IF e.state # newState
    THEN [e EXCEPT !.state = newState, !.stateStrength = strength,
                   !.affectedCommodity = commodity, !.significantChange = TRUE]
    ELSE [e EXCEPT !.stateStrength = Max(@, strength),
                   !.affectedCommodity = IF commodity # "" THEN commodity ELSE @]

\* The first test without its condition on the current state.
MerchantLossTransitionAnyState(e, date) ==
    IF AtLeast(e.merchantLosses, e.config.merchantLossThreshold)
    THEN [e EXCEPT !.state = "BUST",
                   !.stateStrength = Min(100, TruncDiv(e.merchantLosses, Scale \div 10)),
                   !.stateChangeDate = date]
    ELSE e

\* EvaluateStateTransition, first test: merchant losses -> BUST.
MerchantLossTransition(e, date) ==
    IF e.state \in {"STABLE", "BUST"}
       /\ AtLeast(e.merchantLosses, e.config.merchantLossThreshold)
    THEN [e EXCEPT !.state = "BUST",
                   !.stateStrength = Min(100, TruncDiv(e.merchantLosses, Scale \div 10)),
                   !.stateChangeDate = date]
    ELSE e

\* EvaluateStateTransition, second test: pirate losses or trade volume -> BOOM.
BoomTransition(e, date) ==
    IF e.state \in {"STABLE", "BOOM"}
    THEN IF AtLeast(e.pirateLosses, e.config.pirateLossThreshold)
         THEN [e EXCEPT !.state = "BOOM",
                        !.stateStrength = Min(100, TruncDiv(e.pirateLosses, Scale \div 5)),
                        !.stateChangeDate = date]
         ELSE IF AtLeast(e.tradeVolume, e.config.tradeVolumeThreshold)
         THEN [e EXCEPT !.state = "BOOM",
                        !.stateStrength = Min(100, TruncDiv(e.tradeVolume, Scale * 50)),
                        !.stateChangeDate = date]
         ELSE e
    ELSE e

\* The third test entering SHORTAGE instead of LOCKDOWN.
SmugglingTransitionShortage(e, date) ==
    IF AtLeast(e.smugglingLevel, e.config.smugglingThreshold)
    THEN [e EXCEPT !.state = "SHORTAGE",
                   !.stateStrength = Min(100, TruncDiv(e.smugglingLevel, Scale \div 2)),
                   !.stateChangeDate = date]
    ELSE e

\* EvaluateStateTransition, third test: smuggling -> LOCKDOWN.
SmugglingTransition(e, date) ==
    IF AtLeast(e.smugglingLevel, e.config.smugglingThreshold)
    THEN [e EXCEPT !.state = "LOCKDOWN",
                   !.stateStrength = Min(100, TruncDiv(e.smugglingLevel, Scale \div 2)),
                   !.stateChangeDate = date]
    ELSE e

\* SystemEconomy::EvaluateStateTransition: the economy after the call and the
\* value returned.
EvaluateStateTransition(e, date) ==
    LET t == SmugglingTransition(
                 BoomTransition(MerchantLossTransition(e, date), date), date)
    IN  IF t.state # e.state
        THEN [e |-> t, ret |-> TRUE]
        ELSE [e |-> t, ret |-> FALSE]

\* The recoveryDays chosen by the switch in ApplyRecovery.
RecoveryDays(e) ==
    CASE e.state = "BOOM" -> e.config.boomRecoveryDays
      [] e.state = "BUST" -> e.config.bustRecoveryDays
      [] e.state = "SHORTAGE" -> e.config.shortageRecoveryDays
      [] e.state = "SURPLUS" -> e.config.surplusRecoveryDays
      [] e.state = "LOCKDOWN" -> e.config.lockdownRecoveryDays
      [] OTHER -> 14

\* SystemEconomy::ApplyRecovery without affectedCommodity.clear().
ApplyRecoveryKeepsCommodity(e, date) ==
    IF e.state = "STABLE"
    THEN [e |-> e, ret |-> FALSE]
    ELSE LET dailyRecovery == Max(1, TruncDiv(100, RecoveryDays(e)))
             strength == Max(0, e.stateStrength - dailyRecovery)
         IN  IF strength <= 0
             THEN [e |-> [e EXCEPT !.stateStrength = strength,
                                   !.state = "STABLE",
                                   !.stateChangeDate = date],
                   ret |-> TRUE]
             ELSE [e |-> [e EXCEPT !.stateStrength = strength], ret |-> FALSE]

\* SystemEconomy::ApplyRecovery: the economy after the call and the value
\* returned.
ApplyRecovery(e, date) ==
    IF e.state = "STABLE"
    THEN [e |-> e, ret |-> FALSE]
    ELSE LET dailyRecovery == Max(1, TruncDiv(100, RecoveryDays(e)))
             strength == Max(0, e.stateStrength - dailyRecovery)
         IN  IF strength <= 0
             THEN [e |-> [e EXCEPT !.stateStrength = strength,
                                   !.state = "STABLE",
                                   !.affectedCommodity = "",
                                   !.stateChangeDate = date],
                   ret |-> TRUE]
             ELSE [e |-> [e EXCEPT !.stateStrength = strength], ret |-> FALSE]

\* The outcomes of one call of SimulateNPCActivity that the model draws:
\* system is false for a null System (nothing happens); losses and kills are
\* the merchant and pirate losses added (0 when the random test fails);
\* traffic is baseTraffic, clamped at 0, or -1 for an uninhabited system.
NpcOutcomes ==
    {[system |-> FALSE, losses |-> 0, kills |-> 0, traffic |-> -1],
     [system |-> TRUE, losses |-> 1, kills |-> 1, traffic |-> 100]}

NoNpc == [system |-> FALSE, losses |-> 0, kills |-> 0, traffic |-> -1]

\* SystemEconomy::SimulateNPCActivity
SimulateNPCActivity(e, npc) ==
    IF ~npc.system THEN e
    ELSE LET tenths == CASE e.state = "BOOM" -> 15
                         [] e.state = "BUST" -> 5
                         [] e.state = "LOCKDOWN" -> 1
                         [] OTHER -> 10
             traffic == IF npc.traffic < 0 THEN 0
                        ELSE npc.traffic * tenths * (Scale \div 10)
         IN  [e EXCEPT !.merchantLosses = @ + npc.losses * Scale,
                       !.pirateLosses = @ + npc.kills * Scale,
                       !.tradeVolume = @ + traffic]

\* The first four statements of StepDaily: every counter is decayed.
DecayCounters(e) ==
    [e EXCEPT !.merchantLosses = Decay(@), !.pirateLosses = Decay(@),
              !.tradeVolume = Decay(@), !.smugglingLevel = Decay(@)]

\* SystemEconomy::StepDaily with the thresholds compared before the counters
\* are decayed.
StepDailyDecayLast(e, date, npc) ==
    LET t == EvaluateStateTransition(SimulateNPCActivity(e, npc), date)
        applied == ~t.ret /\ t.e.state # "STABLE"
        r == IF applied THEN ApplyRecovery(t.e, date) ELSE t
    IN  [e |-> DecayCounters([r.e EXCEPT !.significantChange = r.ret]),
         ret |-> r.ret, applied |-> applied]

\* SystemEconomy::StepDaily: the economy after the call, the value returned,
\* and whether ApplyRecovery was called.
StepDaily(e, date, npc) ==
    LET d == SimulateNPCActivity(DecayCounters(e), npc)
        t == EvaluateStateTransition(d, date)
        applied == ~t.ret /\ t.e.state # "STABLE"
        r == IF applied THEN ApplyRecovery(t.e, date) ELSE t
    IN  [e |-> [r.e EXCEPT !.significantChange = r.ret], ret |-> r.ret,
         applied |-> applied]

(***************************************************************************)
(* EconomicManager and the cascade of SystemEconomy::PropagateEffects      *)
(* (EconomicState.cpp:664-700, 868-915).                                   *)
(***************************************************************************)
\* The systems of the map.
Systems == {"A", "B", "C", "D"}

\* The null System pointer.
NullSystem == "null"

\* The maps drawn.  Links[s] is System::Links() of s in the order the loop
\* at EconomicState.cpp:683 iterates it.  Chain: A - B - C - D.  Diamond:
\* D is two hops from A both through B and through C.  Loop: A links to
\* itself, A, B and C link to each other, D hangs off C.
ChainMap ==
    [s \in Systems |->
        CASE s = "A" -> <<"B">>
          [] s = "B" -> <<"A", "C">>
          [] s = "C" -> <<"B", "D">>
          [] s = "D" -> <<"C">>]

DiamondMap ==
    [s \in Systems |->
        CASE s = "A" -> <<"C", "B">>
          [] s = "B" -> <<"A", "D">>
          [] s = "C" -> <<"A", "D">>
          [] s = "D" -> <<"B", "C">>]

LoopMap ==
    [s \in Systems |->
        CASE s = "A" -> <<"A", "B", "C">>
          [] s = "B" -> <<"C", "A">>
          [] s = "C" -> <<"A", "B", "D">>
          [] s = "D" -> <<"C">>]

Maps == {ChainMap, DiamondMap, LoopMap}

\* EconomicManager::GetSystemEconomy(system): systemEconomies[system], which
\* default-constructs the entry when there is none.
GetSystemEconomy(economies, system) ==
    IF system \in DOMAIN economies THEN economies[system]
    ELSE NewEconomy(DefaultConfig)

\* systemEconomies after the non-const GetSystemEconomy(system): operator[]
\* has inserted a default-constructed SystemEconomy if there was none.
EconomiesAfterGet(economies, system) ==
    [s \in DOMAIN economies \cup {system} |-> GetSystemEconomy(economies, s)]

\* The null SystemEconomy pointer.
NullEconomy == [null |-> TRUE]

\* The const overload returning a default economy where it finds none.
GetSystemEconomyConstDefault(economies, system) ==
    IF system \in DOMAIN economies THEN economies[system]
    ELSE NewEconomy(DefaultConfig)

\* The const overload of EconomicManager::GetSystemEconomy
\* (EconomicState.cpp:875-879).
GetSystemEconomyConst(economies, system) ==
    IF system \in DOMAIN economies THEN economies[system] ELSE NullEconomy

\* SystemEconomy::IsBlackMarketOnly
IsBlackMarketOnly(e) == e.state = "LOCKDOWN"

\* EconomicManager::HasBlackMarket
HasBlackMarket(blackMarkets, economies, system) ==
    IF system \in blackMarkets THEN TRUE
    ELSE LET econ == GetSystemEconomyConst(economies, system)
         IN  IF econ # NullEconomy /\ IsBlackMarketOnly(econ) THEN TRUE
             ELSE FALSE

\* systemEconomies after systemEconomies[system].RecordEvent(type, magnitude).
RecordAt(economies, system, type, magnitude) ==
    [s \in DOMAIN economies \cup {system} |->
        IF s = system
        THEN RecordEvent(GetSystemEconomy(economies, system), type, magnitude)
        ELSE economies[s]]

\* The switch with the smuggling test at half its magnitude.
ShouldCascadeSmugglingFifty(type, magnitude) ==
    CASE type \in {"MERCHANT_DESTROYED", "CONVOY_ATTACKED", "BLOCKADE_ACTIVE",
                   "WAR_STARTED", "WAR_ENDED"} -> TRUE
      [] type \in {"LARGE_PURCHASE", "LARGE_SALE"} -> magnitude >= 1000
      [] type = "SMUGGLING_DETECTED" -> magnitude >= 50
      [] OTHER -> FALSE

\* The switch of EconomicManager::RecordEvent: whether the event cascades.
ShouldCascade(type, magnitude) ==
    CASE type \in {"MERCHANT_DESTROYED", "CONVOY_ATTACKED", "BLOCKADE_ACTIVE",
                   "WAR_STARTED", "WAR_ENDED"} -> TRUE
      [] type \in {"LARGE_PURCHASE", "LARGE_SALE"} -> magnitude >= 1000
      [] type = "SMUGGLING_DETECTED" -> magnitude >= 100
      [] OTHER -> FALSE

\* The radius test with > for >=.
BeyondRadiusInclusive(distance, radius) == distance > radius

\* distance >= config.cascadeRadius: the entry taken from the queue is not
\* expanded.
BeyondRadius(distance, radius) == distance >= radius

\* The magnitude halved once per hop already made, not counting the hop to
\* the neighbor.
PropagatedMagnitudeOfCurrent(magnitude, distance) ==
    magnitude \div (2 ^ distance)

\* magnitude / (1 << (distance + 1)), for magnitude > 0.
PropagatedMagnitude(magnitude, distance) ==
    magnitude \div (2 ^ (distance + 1))

\* The body of the loop over the neighbors with visited.insert left out.
VisitNeighborUnmarked(st, neighbor, distance, type, magnitude) ==
    IF neighbor = NullSystem \/ neighbor \in st.visited THEN st
    ELSE LET propagatedMagnitude == PropagatedMagnitude(magnitude, distance)
         IN  IF propagatedMagnitude <= 0 THEN st
             ELSE [st EXCEPT
                      !.economies = RecordAt(@, neighbor, type, propagatedMagnitude),
                      !.received[neighbor] = Append(@, <<type, propagatedMagnitude>>),
                      !.toVisit = Append(@, <<neighbor, distance + 1>>),
                      !.enqueued[neighbor] = @ + 1]

\* The body of the loop over the neighbors of the current system
\* (EconomicState.cpp:685-697).  st holds visited, toVisit and the manager's
\* systemEconomies, with the record of what each system received and how
\* often it was pushed.
VisitNeighbor(st, neighbor, distance, type, magnitude) ==
    IF neighbor = NullSystem \/ neighbor \in st.visited THEN st
    ELSE LET v == [st EXCEPT !.visited = @ \cup {neighbor}]
             propagatedMagnitude == PropagatedMagnitude(magnitude, distance)
         IN  IF propagatedMagnitude <= 0 THEN v
             ELSE [v EXCEPT
                      !.economies = RecordAt(@, neighbor, type, propagatedMagnitude),
                      !.received[neighbor] = Append(@, <<type, propagatedMagnitude>>),
                      !.toVisit = Append(@, <<neighbor, distance + 1>>),
                      !.enqueued[neighbor] = @ + 1]

\* for(const System *neighbor : current->Links())
RECURSIVE VisitNeighbors(_, _, _, _, _)
VisitNeighbors(st, neighbors, distance, type, magnitude) ==
    IF neighbors = <<>> THEN st
    ELSE VisitNeighbors(VisitNeighbor(st, Head(neighbors), distance, type, magnitude),
                        Tail(neighbors), distance, type, magnitude)

\* No EconomicManager::RecordEvent call has been made.  Of the last one
\* made: the arguments, systemEconomies before it, and whether it called
\* PropagateEffects.
NoManagerCall ==
    [made |-> FALSE, system |-> NullSystem, type |-> "TRADE_COMPLETED",
     magnitude |-> 0, before |-> <<>>, propagated |-> FALSE]

\* No cascade is running.
NoCascade ==
    [active |-> FALSE, started |-> 0, origin |-> NullSystem,
     type |-> "TRADE_COMPLETED", magnitude |-> 0, radius |-> 0,
     visited |-> {}, toVisit |-> <<>>, last |-> NoManagerCall]

(***************************************************************************)
(* ReputationManager (ReputationManager.h, ReputationManager.cpp).         *)
(*                                                                         *)
(* A standing (reputation) is a double; the model keeps it as an integer   *)
(* number of hundredths.  A rate is kept in ten-thousandths.  A product    *)
(* that is not a whole number of units is rounded to the nearest one.      *)
(***************************************************************************)
\* Units per whole point of standing.
RepScale == 100

\* Units per 1.0 of an effective rate.
RateScale == 10000

\* a / b rounded to the nearest integer (b > 0), halves away from zero.
RoundDiv(a, b) ==
    IF a >= 0 THEN (2 * a + b) \div (2 * b)
    ELSE -((2 * (-a) + b) \div (2 * b))

\* ReputationThreshold (ReputationManager.h:33-41): the value of each
\* enumerator.
ThresholdValue(threshold) ==
    CASE threshold = "WAR" -> -100
      [] threshold = "HOSTILE" -> -50
      [] threshold = "UNFRIENDLY" -> -25
      [] threshold = "NEUTRAL" -> 0
      [] threshold = "FRIENDLY" -> 25
      [] threshold = "ALLIED" -> 50
      [] threshold = "HONORED" -> 100

\* GetThreshold with the UNFRIENDLY test made strict, so that -25 itself is
\* NEUTRAL.
GetThresholdStrictUnfriendly(reputation) ==
    IF reputation <= ThresholdValue("WAR") * RepScale THEN "WAR"
    ELSE IF reputation <= ThresholdValue("HOSTILE") * RepScale THEN "HOSTILE"
    ELSE IF reputation < ThresholdValue("UNFRIENDLY") * RepScale THEN "UNFRIENDLY"
    ELSE IF reputation < ThresholdValue("FRIENDLY") * RepScale THEN "NEUTRAL"
    ELSE IF reputation < ThresholdValue("ALLIED") * RepScale THEN "FRIENDLY"
    ELSE IF reputation < ThresholdValue("HONORED") * RepScale THEN "ALLIED"
    ELSE "HONORED"

\* GetThreshold with the HOSTILE and UNFRIENDLY results exchanged.
GetThresholdSwapped(reputation) ==
    IF reputation <= ThresholdValue("WAR") * RepScale THEN "WAR"
    ELSE IF reputation <= ThresholdValue("HOSTILE") * RepScale THEN "UNFRIENDLY"
    ELSE IF reputation <= ThresholdValue("UNFRIENDLY") * RepScale THEN "HOSTILE"
    ELSE IF reputation < ThresholdValue("FRIENDLY") * RepScale THEN "NEUTRAL"
    ELSE IF reputation < ThresholdValue("ALLIED") * RepScale THEN "FRIENDLY"
    ELSE IF reputation < ThresholdValue("HONORED") * RepScale THEN "ALLIED"
    ELSE "HONORED"

\* ReputationManager::GetThreshold
GetThreshold(reputation) ==
    IF reputation <= ThresholdValue("WAR") * RepScale THEN "WAR"
    ELSE IF reputation <= ThresholdValue("HOSTILE") * RepScale THEN "HOSTILE"
    ELSE IF reputation <= ThresholdValue("UNFRIENDLY") * RepScale THEN "UNFRIENDLY"
    ELSE IF reputation < ThresholdValue("FRIENDLY") * RepScale THEN "NEUTRAL"
    ELSE IF reputation < ThresholdValue("ALLIED") * RepScale THEN "FRIENDLY"
    ELSE IF reputation < ThresholdValue("HONORED") * RepScale THEN "ALLIED"
    ELSE "HONORED"

\* CrossesThreshold reporting a crossing whenever the value changed.
CrossesThresholdOnChange(oldRep, newRep) ==
    [from |-> GetThreshold(oldRep), to |-> GetThreshold(newRep),
     ret |-> oldRep # newRep]

\* ReputationManager::CrossesThreshold: the out-parameters and the value
\* returned.
CrossesThreshold(oldRep, newRep) ==
    [from |-> GetThreshold(oldRep), to |-> GetThreshold(newRep),
     ret |-> GetThreshold(oldRep) # GetThreshold(newRep)]

\* ReputationConfig with its default member initialisers
\* (ReputationManager.h:46-76); only the fields the manager reads.  Rates
\* are in thousandths, neutralPoint in standing units, memoryStrength in
\* tenths.
DefaultReputationConfig ==
    [positiveDecayRate |-> 10, negativeRecoveryRate |-> 5, neutralPoint |-> 0,
     forgivesAtrocities |-> FALSE, atrocityForgivenessDays |-> 365,
     memoryStrength |-> 5]

\* Configurations ReputationConfig::Load produces (it stores every value as
\* read, ReputationManager.cpp:30-53): rates above 1 with a baseline of 10;
\* a rate of one half with quick forgiveness; negative rates with a memory
\* strength above 1 and a negative baseline.
SteepReputationConfig ==
    [positiveDecayRate |-> 2500, negativeRecoveryRate |-> 3000,
     neutralPoint |-> 10 * RepScale,
     forgivesAtrocities |-> TRUE, atrocityForgivenessDays |-> 2,
     memoryStrength |-> 0]

HalfReputationConfig ==
    [positiveDecayRate |-> 500, negativeRecoveryRate |-> 500, neutralPoint |-> 0,
     forgivesAtrocities |-> TRUE, atrocityForgivenessDays |-> 1,
     memoryStrength |-> 0]

OddReputationConfig ==
    [positiveDecayRate |-> -500, negativeRecoveryRate |-> -500,
     neutralPoint |-> -30 * RepScale,
     forgivesAtrocities |-> FALSE, atrocityForgivenessDays |-> 365,
     memoryStrength |-> 15]

ReputationConfigs ==
    {DefaultReputationConfig, SteepReputationConfig, HalfReputationConfig,
     OddReputationConfig}

\* A GovernmentReputationState after construction
\* (ReputationManager.h:112-135).  Dates are day numbers, 0 the unset Date();
\* recentEvents holds the date, change and wasAtrocity of each ReputationEvent
\* (ReputationManager.h:81-91), oldest first.
NewReputationState ==
    [lastInteraction |-> 0, hasCommittedAtrocity |-> FALSE, atrocityDate |-> 0,
     goodDeedCount |-> 0, recentEvents |-> <<>>,
     peakReputation |-> 0, troughReputation |-> 0,
     daysSincePositiveInteraction |-> 0]

\* ReputationManager::MAX_EVENT_HISTORY
REPUTATION_MAX_EVENT_HISTORY == 50

\* GovernmentReputationState::RecordEvent
RecordReputationEvent(st, date, change, wasAtrocity) ==
    [st EXCEPT !.recentEvents =
                   Append(@, [date |-> date, change |-> change,
                              wasAtrocity |-> wasAtrocity]),
               !.lastInteraction = date,
               !.daysSincePositiveInteraction = IF change > 0 THEN 0 ELSE @,
               !.hasCommittedAtrocity = IF wasAtrocity THEN TRUE ELSE @,
               !.atrocityDate = IF wasAtrocity THEN date ELSE @]

\* TrimEventHistory erasing from the end of the list.
TrimEventHistoryFromEnd(st, maxEvents) ==
    [st EXCEPT !.recentEvents =
                   IF Len(@) > maxEvents THEN SubSeq(@, 1, maxEvents) ELSE @]

\* GovernmentReputationState::TrimEventHistory
TrimEventHistory(st, maxEvents) ==
    [st EXCEPT !.recentEvents =
                   IF Len(@) > maxEvents
                   THEN SubSeq(@, Len(@) - maxEvents + 1, Len(@)) ELSE @]

\* ReputationManager::GetEffectiveDecayRate, in units of 1 / RateScale.
\* known: the government has an entry in states; st: that entry.
GetEffectiveDecayRate(config, known, st) ==
    LET memory == IF known THEN 10 - config.memoryStrength ELSE 10
        deeds == IF known /\ st.goodDeedCount > 0
                 THEN 20 - Min(10, st.goodDeedCount) ELSE 20
        recent == IF known /\ st.daysSincePositiveInteraction < 7
                  THEN 49 + 3 * st.daysSincePositiveInteraction ELSE 70
        rate == RoundDiv(config.positiveDecayRate * memory * deeds * recent, 1400)
    IN  Max(0, rate)

\* GetEffectiveRecoveryRate without the final max(0.0, rate).
GetEffectiveRecoveryRateUnclamped(config, known, st) ==
    LET atrocity == IF known /\ st.hasCommittedAtrocity THEN 1 ELSE 10
        absence == IF known /\ st.daysSincePositiveInteraction > 30
                   THEN 100 + Min(50, st.daysSincePositiveInteraction - 30)
                   ELSE 100
    IN  RoundDiv(config.negativeRecoveryRate * atrocity * absence, 100)

\* GetEffectiveRecoveryRate with the long-absence bonus applied only when
\* no atrocity flag is set.
GetEffectiveRecoveryRateExclusive(config, known, st) ==
    LET atrocity == IF known /\ st.hasCommittedAtrocity THEN 1 ELSE 10
        absence == IF known /\ ~st.hasCommittedAtrocity
                      /\ st.daysSincePositiveInteraction > 30
                   THEN 100 + Min(50, st.daysSincePositiveInteraction - 30)
                   ELSE 100
        rate == RoundDiv(config.negativeRecoveryRate * atrocity * absence, 100)
    IN  Max(0, rate)

\* ReputationManager::GetEffectiveRecoveryRate, in units of 1 / RateScale.
GetEffectiveRecoveryRate(config, known, st) ==
    LET atrocity == IF known /\ st.hasCommittedAtrocity THEN 1 ELSE 10
        absence == IF known /\ st.daysSincePositiveInteraction > 30
                   THEN 100 + Min(50, st.daysSincePositiveInteraction - 30)
                   ELSE 100
        rate == RoundDiv(config.negativeRecoveryRate * atrocity * absence, 100)
    IN  Max(0, rate)

\* ApplyDecay without the two clamps at the neutral point.
ApplyDecayUnclamped(config, known, st, currentRep) ==
    LET neutralPoint == config.neutralPoint
    IN  IF currentRep > neutralPoint
        THEN currentRep - RoundDiv((currentRep - neutralPoint)
                              * GetEffectiveDecayRate(config, known, st), RateScale)
        ELSE IF currentRep < neutralPoint
        THEN currentRep + RoundDiv((neutralPoint - currentRep)
                              * GetEffectiveRecoveryRate(config, known, st), RateScale)
        ELSE currentRep

\* ReputationManager::ApplyDecay
ApplyDecay(config, known, st, currentRep) ==
    LET neutralPoint == config.neutralPoint
    IN  IF currentRep > neutralPoint
        THEN LET rate == GetEffectiveDecayRate(config, known, st)
                 decay == RoundDiv((currentRep - neutralPoint) * rate, RateScale)
             IN  Max(neutralPoint, currentRep - decay)
        ELSE IF currentRep < neutralPoint
        THEN LET rate == GetEffectiveRecoveryRate(config, known, st)
                 recovery == RoundDiv((neutralPoint - currentRep) * rate, RateScale)
             IN  Min(neutralPoint, currentRep + recovery)
        ELSE currentRep

\* The governments the player deals with, in the order std::map iterates
\* them, and the null Government pointer.
Governments == {"g1", "g2"}
GovernmentOrder == <<"g1", "g2">>
NullGovernment == "nullGov"

\* ReputationManager::GetConfig; defaultConfig is as constructed.
GetConfig(cfgs, gov) ==
    IF gov \in DOMAIN cfgs THEN cfgs[gov] ELSE DefaultReputationConfig

\* ReputationManager::GetOrCreateState(gov): the entry states[gov], which is
\* default-constructed when there is none.
GetOrCreateState(sts, gov) ==
    IF gov \in DOMAIN sts THEN sts[gov] ELSE NewReputationState

\* states with the entry of gov replaced (or created).
WithState(sts, gov, st) ==
    [g \in DOMAIN sts \cup {gov} |-> IF g = gov THEN st ELSE sts[g]]

\* Government::Reputation: the standing, owned outside the manager.
Reputation(values, gov) == values[gov]

\* Government::SetReputation: the standing is set to the value passed.
SetReputation(values, gov, value) == [values EXCEPT ![gov] = value]

\* The null GovernmentReputationState pointer.
NullState == [null |-> TRUE]

\* ReputationManager::GetState
GetState(sts, gov) == IF gov \in DOMAIN sts THEN sts[gov] ELSE NullState

\* ReputationManager::HasUnforgivenAtrocity
HasUnforgivenAtrocity(sts, cfgs, gov) ==
    IF gov \notin DOMAIN sts THEN FALSE
    ELSE IF ~sts[gov].hasCommittedAtrocity THEN FALSE
    ELSE ~GetConfig(cfgs, gov).forgivesAtrocities

\* ReputationManager::GetRecentEvents: all the stored events, whatever days.
GetRecentEvents(sts, gov) ==
    IF gov \notin DOMAIN sts THEN <<>> ELSE sts[gov].recentEvents

\* The forgiveness test of StepDaily with > in place of >=.
AtrocityForgivenAfter(config, st, currentDate) ==
    /\ st.hasCommittedAtrocity
    /\ config.forgivesAtrocities
    /\ st.atrocityDate # 0
    /\ currentDate - st.atrocityDate > config.atrocityForgivenessDays

\* The forgiveness test of StepDaily (ReputationManager.cpp:304-316).
AtrocityForgiven(config, st, currentDate) ==
    /\ st.hasCommittedAtrocity
    /\ config.forgivesAtrocities
    /\ st.atrocityDate # 0
    /\ currentDate - st.atrocityDate >= config.atrocityForgivenessDays

\* The body of the loop of ReputationManager::StepDaily for one government
\* (ReputationManager.cpp:277-319).  acc holds states and the standings, the
\* crossings collected so far, and the record of each newRep computed.
StepGovernment(acc, cfgs, gov, currentDate) ==
    IF gov \notin DOMAIN acc.states THEN acc
    ELSE LET config == GetConfig(cfgs, gov)
             st1 == [acc.states[gov] EXCEPT !.daysSincePositiveInteraction = @ + 1]
             oldRep == Reputation(acc.standing, gov)
             newRep == ApplyDecay(config, TRUE, st1, oldRep)
             c == CrossesThreshold(oldRep, newRep)
             forgiven == AtrocityForgiven(config, st1, currentDate)
             st2 == TrimEventHistory(
                        [st1 EXCEPT !.hasCommittedAtrocity =
                                        IF forgiven THEN FALSE ELSE @],
                        REPUTATION_MAX_EVENT_HISTORY)
         IN  [states |-> [acc.states EXCEPT ![gov] = st2],
              standing |-> IF newRep # oldRep
                           THEN SetReputation(acc.standing, gov, newRep)
                           ELSE acc.standing,
              crossings |-> IF c.ret
                            THEN Append(acc.crossings,
                                     [government |-> gov,
                                      fromThreshold |-> c.from,
                                      toThreshold |-> c.to,
                                      date |-> currentDate,
                                      oldReputation |-> oldRep,
                                      newReputation |-> newRep])
                            ELSE acc.crossings,
              decayed |-> [acc.decayed EXCEPT ![gov] = newRep]]

\* for(auto &pair : states), null government skipped.
RECURSIVE StepGovernments(_, _, _, _)
StepGovernments(acc, cfgs, govs, currentDate) ==
    IF govs = <<>> THEN acc
    ELSE StepGovernments(StepGovernment(acc, cfgs, Head(govs), currentDate),
                         cfgs, Tail(govs), currentDate)

\* No daily reputation tick has just run.  Of a tick that has: the
\* governments that had an entry in states, the standing of each before the
\* tick, and the newRep computed for each.
NoReputationTick ==
    [ran |-> FALSE, known |-> {}, old |-> [g \in Governments |-> 0],
     decayed |-> [g \in Governments |-> 0]]

\* No operation has been called on the manager yet.  Of one that has: its
\* name, the government passed, states and the standings before it, and,
\* for a Save followed by a Load into a new manager, the states of that
\* manager.
NoRepCall ==
    [op |-> "none", gov |-> NullGovernment, before |-> <<>>,
     standingBefore |-> [g \in Governments |-> 0], loaded |-> <<>>]

\* A node of the saved data tree: its first token, the values that follow it
\* and its children.
Node(key, value, children) ==
    [key |-> key, value |-> value, children |-> children]

\* A node written only when cond holds.
WriteIf(cond, node) == IF cond THEN <<node>> ELSE <<>>

\* The "event" node GovernmentReputationState::Save writes
\* (ReputationManager.cpp:142-155).
SaveEvent(event) ==
    Node("event", 0,
         <<Node("date", event.date, <<>>), Node("change", event.change, <<>>)>>
         \o WriteIf(event.wasAtrocity, Node("atrocity", 1, <<>>)))

\* The children of an "event" node read back (ReputationManager.cpp:95-111).
RECURSIVE LoadEvent(_, _)
LoadEvent(event, children) ==
    IF children = <<>> THEN event
    ELSE LET grand == Head(children)
             next == IF grand.key = "date"
                     THEN [event EXCEPT !.date = grand.value]
                     ELSE IF grand.key = "change"
                     THEN [event EXCEPT !.change = grand.value]
                     ELSE IF grand.key = "atrocity"
                     THEN [event EXCEPT !.wasAtrocity = (grand.value # 0)]
                     ELSE event
         IN  LoadEvent(next, Tail(children))

\* GovernmentReputationState::Save
SaveState(st) ==
    Node("reputation state", 0,
         WriteIf(st.lastInteraction # 0,
                 Node("last interaction", st.lastInteraction, <<>>))
         \o (IF st.hasCommittedAtrocity
             THEN <<Node("has committed atrocity", 1, <<>>)>>
                  \o WriteIf(st.atrocityDate # 0,
                             Node("atrocity date", st.atrocityDate, <<>>))
             ELSE <<>>)
         \o WriteIf(st.goodDeedCount > 0,
                    Node("good deed count", st.goodDeedCount, <<>>))
         \o WriteIf(st.peakReputation # 0,
                    Node("peak reputation", st.peakReputation, <<>>))
         \o WriteIf(st.troughReputation # 0,
                    Node("trough reputation", st.troughReputation, <<>>))
         \o WriteIf(st.daysSincePositiveInteraction > 0,
                    Node("days since positive",
                         st.daysSincePositiveInteraction, <<>>))
         \o [i \in 1..Len(st.recentEvents) |-> SaveEvent(st.recentEvents[i])])

\* The loop of GovernmentReputationState::Load over the children of a node.
RECURSIVE LoadStateChildren(_, _)
LoadStateChildren(st, children) ==
    IF children = <<>> THEN st
    ELSE LET child == Head(children)
             key == child.key
             next ==
                 IF key = "last interaction"
                 THEN [st EXCEPT !.lastInteraction = child.value]
                 ELSE IF key = "has committed atrocity"
                 THEN [st EXCEPT !.hasCommittedAtrocity = (child.value # 0)]
                 ELSE IF key = "atrocity date"
                 THEN [st EXCEPT !.atrocityDate = child.value]
                 ELSE IF key = "good deed count"
                 THEN [st EXCEPT !.goodDeedCount = child.value]
                 ELSE IF key = "peak reputation"
                 THEN [st EXCEPT !.peakReputation = child.value]
                 ELSE IF key = "trough reputation"
                 THEN [st EXCEPT !.troughReputation = child.value]
                 ELSE IF key = "days since positive"
                 THEN [st EXCEPT !.daysSincePositiveInteraction = child.value]
                 ELSE IF key = "event"
                 THEN [st EXCEPT !.recentEvents =
                          Append(@, LoadEvent([date |-> 0, change |-> 0,
                                               wasAtrocity |-> FALSE],
                                              child.children))]
                 ELSE st
         IN  LoadStateChildren(next, Tail(children))

\* GovernmentReputationState::Load into a state as constructed.
LoadState(node) == LoadStateChildren(NewReputationState, node.children)

\* The loop of ReputationManager::Save over states, the null government
\* skipped (ReputationManager.cpp:228-239).
RECURSIVE SaveGovernments(_, _)
SaveGovernments(sts, govs) ==
    IF govs = <<>> THEN <<>>
    ELSE (IF Head(govs) \in DOMAIN sts
          THEN <<Node("government", Head(govs), <<SaveState(sts[Head(govs)])>>)>>
          ELSE <<>>)
         \o SaveGovernments(sts, Tail(govs))

\* ReputationManager::Save
ManagerSave(sts) ==
    Node("reputation manager", 0, SaveGovernments(sts, GovernmentOrder))

\* The inner loop of ReputationManager::Load over the children of a
\* "government" node (ReputationManager.cpp:202-214), for the states: a
\* "state" child is loaded into states[gov], the last one read staying.
LoadGovernment(sts, gov, children) ==
    IF \E i \in DOMAIN children : children[i].key = "state"
    THEN WithState(sts, gov,
             LoadState(children[CHOOSE i \in DOMAIN children :
                           /\ children[i].key = "state"
                           /\ \A j \in DOMAIN children :
                                 children[j].key = "state" => j <= i]))
    ELSE sts

\* The outer loop of ReputationManager::Load (ReputationManager.cpp:194-216).
RECURSIVE LoadGovernments(_, _)
LoadGovernments(sts, children) ==
    IF children = <<>> THEN sts
    ELSE LET child == Head(children)
         IN  LoadGovernments(
                 IF child.key = "government"
                 THEN LoadGovernment(sts, child.value, child.children)
                 ELSE sts,
                 Tail(children))

\* ReputationManager::Load into a manager as constructed: its states.
ManagerLoad(node) == LoadGovernments(<<>>, node.children)


(***************************************************************************)
(* WitnessSystem::CheckWitnesses and the static tests it calls.  Distances *)
(* are whole units, cloaking levels and report chances are in hundredths,  *)
(* clarity is in thousandths.                                              *)
(***************************************************************************)
\* WitnessConstants (WitnessSystem.h:34-55)
DEFAULT_WITNESS_RANGE == 5000
CLOAK_WITNESS_THRESHOLD == 50
OBSERVER_CLOAK_THRESHOLD == 80
CIVILIAN_REPORT_CHANCE == 70
MILITARY_REPORT_CHANCE == 95
\* SENSOR_RANGE_MULTIPLIER = 1.5, in tenths.
SENSOR_RANGE_MULTIPLIER == 15

\* The null Government pointer of a ship, and the governments ships have:
\* enemy is Government::IsEnemy() (of the player), law whether TrueName()
\* contains "Navy", "Militia" or "Police", enemyOfVictim is
\* Government::IsEnemy(victimGov).
NoGovernment ==
    [present |-> FALSE, enemy |-> FALSE, law |-> FALSE, enemyOfVictim |-> FALSE]
ShipGovernments ==
    {NoGovernment}
    \cup {[present |-> TRUE, enemy |-> e, law |-> FALSE, enemyOfVictim |-> v] :
             e \in BOOLEAN, v \in BOOLEAN}
    \cup {[present |-> TRUE, enemy |-> FALSE, law |-> TRUE, enemyOfVictim |-> TRUE]}

\* WitnessSystem::HasEnhancedSensors: ship.scan holds the three scan-power
\* attributes of the ship.
HasEnhancedSensors(ship) ==
    \/ ship.scan.cargo > 0
    \/ ship.scan.outfit > 0
    \/ ship.scan.tactical > 0

\* WitnessSystem::GetWitnessRange
GetWitnessRange(ship) ==
    IF HasEnhancedSensors(ship)
    THEN (DEFAULT_WITNESS_RANGE * SENSOR_RANGE_MULTIPLIER) \div 10
    ELSE DEFAULT_WITNESS_RANGE

\* WitnessSystem::CanWitness; observer.distance is
\* observer.Position().Distance(eventLocation).
CanWitness(observer, perpetrator, range) ==
    IF observer.distance > range THEN FALSE
    ELSE IF observer.cloaking >= OBSERVER_CLOAK_THRESHOLD THEN FALSE
    ELSE IF perpetrator.present /\ perpetrator.cloaking >= CLOAK_WITNESS_THRESHOLD
    THEN FALSE
    ELSE TRUE

\* WitnessSystem::CalculateClarity, rounded to thousandths at each step.
CalculateClarity(observer, perpetrator, range) ==
    LET base == Max(0, Min(1000, 1000 - RoundDiv(observer.distance * 1000, range)))
        seen == IF perpetrator.present
                THEN RoundDiv(base * (1000 - 8 * perpetrator.cloaking), 1000)
                ELSE base
    IN  IF HasEnhancedSensors(observer)
        THEN Min(1000, RoundDiv(seen * 13, 10))
        ELSE seen

\* WouldReport with a report chance of 0 for allies of the victim.
WouldReportAlliesSilent(witness, victimGov) ==
    LET witnessGov == witness.gov
        lawChance == IF witnessGov.enemy \/ witnessGov.law
                     THEN MILITARY_REPORT_CHANCE ELSE CIVILIAN_REPORT_CHANCE
        reportChance == IF victimGov.present /\ ~witnessGov.enemyOfVictim
                        THEN 0 ELSE lawChance
    IN  IF ~witnessGov.present THEN FALSE
        ELSE IF witnessGov.enemy THEN FALSE
        ELSE reportChance >= 50

\* WitnessSystem::WouldReport
WouldReport(witness, victimGov) ==
    LET witnessGov == witness.gov
        lawChance == IF witnessGov.enemy \/ witnessGov.law
                     THEN MILITARY_REPORT_CHANCE ELSE CIVILIAN_REPORT_CHANCE
        reportChance == IF victimGov.present /\ ~witnessGov.enemyOfVictim
                        THEN 100 ELSE lawChance
    IN  IF ~witnessGov.present THEN FALSE
        ELSE IF witnessGov.enemy THEN FALSE
        ELSE reportChance >= 50

\* The body of the loop of CheckWitnesses for the i-th ship of nearbyShips
\* (WitnessSystem.cpp:204-230): the witnesses found so far, with this ship
\* added if it is one.  ship.status tells whether the ship is the
\* perpetrator or the victim itself, destroyed or disabled.
CheckShip(witnesses, ships, i, perpetrator, victim, customRange) ==
    LET ship == ships[i]
        range == IF customRange > 0 THEN customRange ELSE GetWitnessRange(ship)
        victimGov == IF victim.present THEN victim.gov ELSE NoGovernment
    IN  IF ship.status \in {"perpetrator", "victim"} THEN witnesses
        ELSE IF ship.status \in {"destroyed", "disabled"} THEN witnesses
        ELSE IF ~CanWitness(ship, perpetrator, range) THEN witnesses
        ELSE Append(witnesses,
                    [ship |-> i, government |-> ship.gov,
                     distance |-> ship.distance,
                     canReport |-> WouldReport(ship, victimGov),
                     hasSensors |-> HasEnhancedSensors(ship),
                     clarity |-> CalculateClarity(ship, perpetrator, range)])

\* WitnessSystem::CheckWitnesses: the loop from the i-th ship on.
RECURSIVE CheckWitnessesFrom(_, _, _, _, _, _)
CheckWitnessesFrom(witnesses, ships, i, perpetrator, victim, customRange) ==
    IF i > Len(ships) THEN witnesses
    ELSE CheckWitnessesFrom(
             CheckShip(witnesses, ships, i, perpetrator, victim, customRange),
             ships, i + 1, perpetrator, victim, customRange)

\* WitnessSystem::CheckWitnesses
CheckWitnesses(perpetrator, victim, ships, customRange) ==
    CheckWitnessesFrom(<<>>, ships, 1, perpetrator, victim, customRange)

\* No lookup has been made.  Of one that has: the function called, the
\* handle passed, what it returned, and the two registries before the call.
NoLookup ==
    [op |-> "none", key |-> "none", result |-> FALSE,
     economiesBefore |-> <<>>, statesBefore |-> <<>>]

\* CheckWitnesses has not been called.
NoWitnessResult == [called |-> FALSE, witnesses |-> <<>>]

\* The scene before any is set up.
NoScene ==
    [perpetrator |-> [present |-> FALSE, cloaking |-> 0],
     victim |-> [present |-> FALSE, gov |-> NoGovernment],
     customRange |-> DEFAULT_WITNESS_RANGE]


(***************************************************************************)
(* ActionLog (ActionLog.h, ActionLog.cpp): a deque of ActionRecord with a  *)
(* maximum size.  The hostile-action cache is derived from the records and *)
(* is not part of the model.                                               *)
(***************************************************************************)
\* ActionLog::ActionLog(maxRecords): no records yet.
NewActionLog(maxRecords) == [records |-> <<>>, maxRecords |-> maxRecords]

\* TrimToMaxSize popping from the back of the deque.
LogTrimFromBack(log) ==
    IF Len(log.records) > log.maxRecords
    THEN [log EXCEPT !.records = SubSeq(@, 1, log.maxRecords)]
    ELSE log

\* ActionLog::TrimToMaxSize: pop_front while records.size() > maxRecords.
LogTrimToMaxSize(log) ==
    IF Len(log.records) > log.maxRecords
    THEN [log EXCEPT !.records =
                         SubSeq(@, Len(@) - log.maxRecords + 1, Len(@))]
    ELSE log

\* ActionLog::Record (both overloads)
LogRecord(log, record) ==
    LogTrimToMaxSize([log EXCEPT !.records = Append(@, record)])

\* ActionLog::SetMaxRecords
LogSetMaxRecords(log, max) == LogTrimToMaxSize([log EXCEPT !.maxRecords = max])

\* ActionLog::Size
LogSize(log) == Len(log.records)

\* ActionLog::MaxRecords
LogMaxRecords(log) == log.maxRecords

(***************************************************************************)
(* EncounterLog (EncounterRecord.h:136-194, EncounterRecord.cpp:280-435):  *)
(* a std::map from NPC UUID to EncounterRecord with a maximum size.        *)
(***************************************************************************)
\* The UUIDs looked up, in the order std::map<std::string, ...> keeps them.
UuidOrder == <<"u1", "u2", "u3">>
Uuids == {UuidOrder[i] : i \in DOMAIN UuidOrder}

\* EncounterLog::EncounterLog(maxRecords): no records yet.
NewEncounterLog(maxRecords) == [records |-> <<>>, maxRecords |-> maxRecords]

\* EncounterRecord::EncounterRecord(date, system, uuid); only the fields
\* GetOrCreate and TrimToMaxSize read or write.
NewEncounterRecord(date, system, uuid) ==
    [firstMet |-> date, lastSeen |-> date, lastSystem |-> system,
     timesEncountered |-> 1, npcUuid |-> uuid]

\* EncounterRecord::RecordEncounter
RecordEncounter(record, date, system) ==
    [record EXCEPT !.timesEncountered = @ + 1, !.lastSeen = date,
                   !.lastSystem = IF system # "" THEN system ELSE @]

\* EncounterLog::HasRecord
HasRecord(log, uuid) == uuid \in DOMAIN log.records

\* The record the inner loop of TrimToMaxSize selects: the scan starts at
\* records.begin() and moves on only to a strictly smaller lastSeen, so of
\* the records with the smallest lastSeen it is the one with the first key.
OldestIn(records) ==
    LET least == CHOOSE d \in {records[u].lastSeen : u \in DOMAIN records} :
                     \A u \in DOMAIN records : d <= records[u].lastSeen
        first == CHOOSE i \in DOMAIN UuidOrder :
                     /\ UuidOrder[i] \in DOMAIN records
                     /\ records[UuidOrder[i]].lastSeen = least
                     /\ \A j \in DOMAIN UuidOrder :
                           (/\ UuidOrder[j] \in DOMAIN records
                            /\ records[UuidOrder[j]].lastSeen = least) => i <= j
    IN  UuidOrder[first]

\* records with the entry of uuid erased.
Erased(records, uuid) == [u \in DOMAIN records \ {uuid} |-> records[u]]

\* EncounterLog::TrimToMaxSize
RECURSIVE EncounterTrimToMaxSize(_)
EncounterTrimToMaxSize(log) ==
    IF Cardinality(DOMAIN log.records) <= log.maxRecords THEN log
    ELSE EncounterTrimToMaxSize(
             [log EXCEPT !.records = Erased(@, OldestIn(@))])

\* records with the entry of uuid set (or created).
WithRecord(records, uuid, record) ==
    [u \in DOMAIN records \cup {uuid} |->
        IF u = uuid THEN record ELSE records[u]]

\* EncounterLog::GetOrCreate: the log after the call; whether the reference
\* returned refers to an element of the map (it dangles when TrimToMaxSize
\* has erased the element just emplaced); and the record that element held
\* when the reference was taken.
GetOrCreate(log, uuid, date, system) ==
    IF uuid \in DOMAIN log.records
    THEN LET record == RecordEncounter(log.records[uuid], date, system)
         IN  [log |-> [log EXCEPT !.records = WithRecord(@, uuid, record)],
              valid |-> TRUE, record |-> record]
    ELSE LET record == NewEncounterRecord(date, system, uuid)
             trimmed == EncounterTrimToMaxSize(
                            [log EXCEPT !.records = WithRecord(@, uuid, record)])
         IN  [log |-> trimmed, valid |-> uuid \in DOMAIN trimmed.records,
              record |-> record]

\* EncounterLog::SetMaxRecords
EncounterSetMaxRecords(log, max) ==
    EncounterTrimToMaxSize([log EXCEPT !.maxRecords = max])

\* What a read through a dangling EncounterRecord reference may yield: the
\* record as it was (the node's memory not yet reused) or anything else.
GarbageRecord ==
    [firstMet |-> 0, lastSeen |-> 0, lastSystem |-> "", timesEncountered |-> 0,
     npcUuid |-> ""]

\* No call has been made on the encounter log yet.  Of the last call made:
\* its name, the UUID passed, whether the reference returned is valid, what
\* a read through it yields, and the number of GetOrCreate calls so far.
NoEncounterCall ==
    [op |-> "none", uuid |-> "", valid |-> TRUE, returned |-> GarbageRecord,
     calls |-> 0]

(***************************************************************************)
(* State.                                                                  *)
(***************************************************************************)
VARIABLES
    \* A WitnessReport object held by a caller and stepped on its own.
    report,          \* the object
    frames0,         \* the countdown it was constructed with
    stepCalls,       \* number of Step() calls made on it
    stepRet,         \* value returned by the last Step() ("none" before any)
    \* WitnessSystem.
    pendingReports,  \* WitnessSystem::pendingReports
    ready,           \* the vector returned by the last StepReports()
    nextId,          \* identity of the next report to be queued
    hist,            \* per report: what was queued and what happened to it
    \* A SystemEconomy and its caller.
    economy,         \* the SystemEconomy object
    date,            \* the current day (the Date passed to StepDaily)
    calls,           \* number of RecordEvent, SetState and Clear calls so far
    today,           \* what was recorded since the last daily tick
    tick,            \* the last operation, if it was StepDaily: what it saw
    \* EconomicManager and the map it works on.
    links,           \* System::Links() of every system
    systemEconomies, \* EconomicManager::systemEconomies
    cascade,         \* the PropagateEffects call in progress, if any
    received,        \* per system: the events the last cascade recorded there
    enqueued,        \* per system: how often the last cascade pushed it
    managerCalls,    \* number of EconomicManager::RecordEvent calls so far
    defaultConfig,   \* EconomicManager::defaultConfig
    blackMarketSystems, \* EconomicManager::blackMarketSystems
    \* ReputationManager, the standings it reads and writes, and its callers.
    thresholdCalls,  \* the last two GetThreshold calls: argument and result
    standing,        \* Government::Reputation() of every government
    configs,         \* ReputationManager::configs
    states,          \* ReputationManager::states
    crossings,       \* the vector returned by the last StepDaily
    repDate,         \* the current day
    repCalls,        \* number of calls other than StepDaily so far
    repTick,         \* the last operation, if it was StepDaily: what it saw
    repCall,         \* the last operation on the manager and what it found
    atrocityRecorded, \* the handles RecordAtrocity was called with, less
                     \* those StepDaily has forgiven since
    \* A caller looking up a government or a system in the two managers.
    lookup,          \* the last lookup: what was asked, found and returned
    \* A caller of WitnessSystem::CheckWitnesses.
    nearbyShips,     \* the ships passed, in the order of the list
    scene,           \* the perpetrator, the victim and the range passed
    witnessResult,   \* the WitnessResult returned, once it was called
    \* An ActionLog, an EncounterLog and their callers.
    actionLog,       \* the ActionLog object
    recorded,        \* every record passed to Record so far, in call order
    encounterLog,    \* the EncounterLog object
    encounterCall    \* the last call on the encounter log and what it returned

reportVars == <<report, frames0, stepCalls, stepRet>>
witnessVars == <<pendingReports, ready, nextId, hist>>
economyVars == <<economy, date, calls, today, tick>>
managerVars ==
    <<links, systemEconomies, cascade, received, enqueued, managerCalls,
      defaultConfig, blackMarketSystems>>
reputationVars ==
    <<thresholdCalls, standing, configs, states, crossings, repDate, repCalls,
      repTick, repCall, atrocityRecorded>>
lookupVars == <<lookup>>
observeVars == <<nearbyShips, scene, witnessResult>>
logVars == <<actionLog, recorded, encounterLog, encounterCall>>
vars ==
    <<reportVars, witnessVars, economyVars, managerVars, reputationVars,
      lookupVars, observeVars, logVars>>

ReportIds == 1..MaxReports

\* Nothing recorded yet today.  fresh: the day started STABLE with strength 0
\* and all four counters at zero; events: RecordEvent calls since then;
\* unitMerchantOnly: all of them MERCHANT_DESTROYED of magnitude 1.
NewDay(e) ==
    [fresh |-> /\ e.state = "STABLE" /\ e.stateStrength = 0
               /\ e.merchantLosses = 0 /\ e.pirateLosses = 0
               /\ e.tradeVolume = 0 /\ e.smugglingLevel = 0,
     events |-> 0, unitMerchantOnly |-> TRUE]

\* No daily tick has just run.  Of a tick that has: the state and strength
\* before it, the record of the day it ended, whether it was given a System,
\* the value it returned, and whether it called ApplyRecovery.
NoTick == [ran |-> FALSE, preState |-> "STABLE", preStrength |-> 0,
           day |-> NewDay(NewEconomy(DefaultConfig)),
           system |-> FALSE, ret |-> FALSE, applied |-> FALSE]

\* The history of a report that has not been queued.
NoHist ==
    [queued |-> FALSE, frames0 |-> 0, suppress0 |-> FALSE, witnesses0 |-> <<>>,
     age |-> 0, notified |-> {}, coveredAge |-> -1,
     returned |-> 0, returnedAge |-> -1, dropped |-> 0, droppedAge |-> -1,
     cleared |-> FALSE]

\* A WitnessReport as its constructor leaves it: canBeSuppressed true,
\* activeWitnesses empty (WitnessSystem.h:145-147, WitnessSystem.cpp:153-158).
ConstructedReport(frames) == WitnessReport(0, frames, TRUE, <<>>)

\* A caller holds a WitnessReport: constructed with a countdown, then the
\* public fields canBeSuppressed and activeWitnesses set.  The queue is empty.
ReportInit ==
    /\ \E n \in 0..MaxFrames, s \in BOOLEAN, w \in WitnessLists :
          /\ report = WitnessReport(0, n, s, w)
          /\ frames0 = n
    /\ stepCalls = 0
    /\ stepRet = "none"
    /\ pendingReports = <<>>
    /\ ready = <<>>
    /\ nextId = 1
    /\ hist = [i \in ReportIds |-> NoHist]
    /\ links = ChainMap
    /\ systemEconomies = <<>>
    /\ cascade = NoCascade
    /\ received = [s \in Systems |-> <<>>]
    /\ enqueued = [s \in Systems |-> 0]
    /\ managerCalls = 0
    /\ defaultConfig = DefaultConfig
    /\ blackMarketSystems = {}
    /\ thresholdCalls = <<>>
    /\ standing = [g \in Governments |-> 0]
    /\ configs = <<>>
    /\ states = <<>>
    /\ crossings = <<>>
    /\ repDate = 1
    /\ repCalls = 0
    /\ repTick = NoReputationTick
    /\ repCall = NoRepCall
    /\ atrocityRecorded = {}
    /\ lookup = NoLookup
    /\ nearbyShips = <<>>
    /\ scene = NoScene
    /\ witnessResult = NoWitnessResult
    /\ actionLog = NewActionLog(0)
    /\ recorded = <<>>
    /\ encounterLog = NewEncounterLog(0)
    /\ encounterCall = NoEncounterCall
    /\ economy = NewEconomy(DefaultConfig)
    /\ date = 0
    /\ calls = 0
    /\ today = NewDay(NewEconomy(DefaultConfig))
    /\ tick = NoTick

\* A WitnessSystem after construction: no pending reports.
WitnessInit ==
    /\ report = ConstructedReport(0)
    /\ frames0 = 0
    /\ stepCalls = 0
    /\ stepRet = "none"
    /\ pendingReports = <<>>
    /\ ready = <<>>
    /\ nextId = 1
    /\ hist = [i \in ReportIds |-> NoHist]
    /\ links = ChainMap
    /\ systemEconomies = <<>>
    /\ cascade = NoCascade
    /\ received = [s \in Systems |-> <<>>]
    /\ enqueued = [s \in Systems |-> 0]
    /\ managerCalls = 0
    /\ defaultConfig = DefaultConfig
    /\ blackMarketSystems = {}
    /\ thresholdCalls = <<>>
    /\ standing = [g \in Governments |-> 0]
    /\ configs = <<>>
    /\ states = <<>>
    /\ crossings = <<>>
    /\ repDate = 1
    /\ repCalls = 0
    /\ repTick = NoReputationTick
    /\ repCall = NoRepCall
    /\ atrocityRecorded = {}
    /\ lookup = NoLookup
    /\ nearbyShips = <<>>
    /\ scene = NoScene
    /\ witnessResult = NoWitnessResult
    /\ actionLog = NewActionLog(0)
    /\ recorded = <<>>
    /\ encounterLog = NewEncounterLog(0)
    /\ encounterCall = NoEncounterCall
    /\ economy = NewEconomy(DefaultConfig)
    /\ date = 0
    /\ calls = 0
    /\ today = NewDay(NewEconomy(DefaultConfig))
    /\ tick = NoTick

(***************************************************************************)
(* A WitnessReport stepped by its holder.                                  *)
(***************************************************************************)
\* report.Step()
ReportStep ==
    /\ stepCalls <= MaxFrames
    /\ LET s == Step(report)
       IN  /\ report' = s.report
           /\ stepRet' = s.ret
    /\ stepCalls' = stepCalls + 1
    /\ UNCHANGED <<frames0, witnessVars, economyVars, managerVars, reputationVars,
                   lookupVars, observeVars, logVars>>

\* report.EliminateWitness(ship)
ReportEliminateWitness(ship) ==
    /\ report' = EliminateWitness(report, ship).report
    /\ UNCHANGED <<frames0, stepCalls, stepRet, witnessVars, economyVars, managerVars, reputationVars,
                   lookupVars, observeVars, logVars>>

ReportNext ==
    \/ ReportStep
    \/ \E ship \in Ships : ReportEliminateWitness(ship)

SpecReport == ReportInit /\ [][ReportNext]_vars

(***************************************************************************)
(* WitnessSystem: the delayed report queue.                                *)
(***************************************************************************)
IsPending(id) == \E k \in DOMAIN pendingReports : pendingReports[k].id = id

IdsOf(reports) == {reports[k].id : k \in DOMAIN reports}

\* The sweep of StepReports over the queue, front to back: a report whose
\* witnesses are all eliminated is erased; every other report is stepped and
\* moved to the result when Step() returns true.
RECURSIVE Sweep(_)
Sweep(reports) ==
    IF reports = <<>>
    THEN [pending |-> <<>>, ready |-> <<>>, dropped |-> <<>>]
    ELSE LET r == Head(reports)
             rest == Sweep(Tail(reports))
         IN  IF AllWitnessesEliminated(r)
             THEN [rest EXCEPT !.dropped = <<r>> \o @]
             ELSE LET s == Step(r)
                  IN  IF s.ret
                      THEN [rest EXCEPT !.ready = <<s.report>> \o @]
                      ELSE [rest EXCEPT !.pending = <<s.report>> \o @]

\* WitnessSystem::QueueReport
QueueReport(n, s, w) ==
    /\ nextId <= MaxReports
    /\ pendingReports' = Append(pendingReports, WitnessReport(nextId, n, s, w))
    /\ hist' = [hist EXCEPT ![nextId] =
                  [NoHist EXCEPT !.queued = TRUE, !.frames0 = n, !.suppress0 = s,
                                 !.witnesses0 = w,
                                 !.coveredAge = IF w = <<>> THEN 0 ELSE -1]]
    /\ nextId' = nextId + 1
    /\ UNCHANGED <<ready, reportVars, economyVars, managerVars, reputationVars,
                   lookupVars, observeVars, logVars>>

\* WitnessSystem::StepReports
StepReports ==
    /\ pendingReports # <<>> \/ ready # <<>>
    /\ LET sw == Sweep(pendingReports)
       IN  /\ pendingReports' = sw.pending
           /\ ready' = sw.ready
           /\ hist' = [i \in ReportIds |->
                 IF ~IsPending(i) THEN hist[i]
                 ELSE LET h == [hist[i] EXCEPT !.age = @ + 1]
                      IN  IF i \in IdsOf(sw.ready)
                          THEN [h EXCEPT !.returned = @ + 1, !.returnedAge = h.age]
                          ELSE IF i \in IdsOf(sw.dropped)
                          THEN [h EXCEPT !.dropped = @ + 1, !.droppedAge = h.age]
                          ELSE h]
    /\ UNCHANGED <<nextId, reportVars, economyVars, managerVars, reputationVars,
                   lookupVars, observeVars, logVars>>

\* WitnessSystem::NotifyShipDestroyed
NotifyShipDestroyed(ship) ==
    /\ pendingReports' = [k \in DOMAIN pendingReports |->
                             EliminateWitness(pendingReports[k], ship).report]
    /\ hist' = [i \in ReportIds |->
          IF ~IsPending(i) THEN hist[i]
          ELSE LET n == hist[i].notified \cup {ship}
               IN  [hist[i] EXCEPT
                      !.notified = n,
                      !.coveredAge = IF @ = -1 /\ ShipsOf(hist[i].witnesses0) \subseteq n
                                     THEN hist[i].age ELSE @]]
    /\ UNCHANGED <<ready, nextId, reportVars, economyVars, managerVars, reputationVars,
                   lookupVars, observeVars, logVars>>

\* WitnessSystem::Clear
Clear ==
    /\ pendingReports # <<>>
    /\ pendingReports' = <<>>
    /\ hist' = [i \in ReportIds |->
                  IF IsPending(i) THEN [hist[i] EXCEPT !.cleared = TRUE] ELSE hist[i]]
    /\ UNCHANGED <<ready, nextId, reportVars, economyVars, managerVars, reputationVars,
                   lookupVars, observeVars, logVars>>

WitnessNext ==
    \/ \E n \in 0..MaxFrames, s \in BOOLEAN, w \in WitnessLists : QueueReport(n, s, w)
    \/ StepReports
    \/ \E ship \in Ships : NotifyShipDestroyed(ship)
    \/ Clear

SpecWitness == WitnessInit /\ [][WitnessNext]_vars

(***************************************************************************)
(* A SystemEconomy driven by its caller.                                   *)
(***************************************************************************)
\* The magnitudes passed to RecordEvent (an int; nothing rejects a negative
\* one).
Magnitudes == {-4, 3, 60}

\* The RecordEvent calls drawn: every counted type with a small and a large
\* magnitude, a negative magnitude, and a type that no counter counts.
RecordedEvents ==
    ({"MERCHANT_DESTROYED", "PIRATE_DESTROYED", "TRADE_COMPLETED",
      "SMUGGLING_DETECTED"} \X {3, 60})
    \cup {<<"MERCHANT_DESTROYED", -4>>, <<"SMUGGLING_DETECTED", -4>>,
          <<"RELIEF_DELIVERED", 3>>}

\* The strengths passed to SetState (an int, 100 by default; nothing clamps
\* it).
Strengths == {0, 100, 150}

\* The commodity passed to SetState: one for a shortage or a surplus, none
\* (the default argument) for the other states.
CommodityFor(newState) ==
    IF newState \in {"SHORTAGE", "SURPLUS"} THEN "Food" ELSE ""

\* A SystemEconomy after construction, with the configuration it was given.
EconomyInit ==
    /\ \E c \in Configs :
          /\ economy = NewEconomy(c)
          /\ today = NewDay(NewEconomy(c))
    /\ date = 0
    /\ calls = 0
    /\ tick = NoTick
    /\ report = ConstructedReport(0)
    /\ frames0 = 0
    /\ stepCalls = 0
    /\ stepRet = "none"
    /\ pendingReports = <<>>
    /\ ready = <<>>
    /\ nextId = 1
    /\ hist = [i \in ReportIds |-> NoHist]
    /\ links = ChainMap
    /\ systemEconomies = <<>>
    /\ cascade = NoCascade
    /\ received = [s \in Systems |-> <<>>]
    /\ enqueued = [s \in Systems |-> 0]
    /\ managerCalls = 0
    /\ defaultConfig = DefaultConfig
    /\ blackMarketSystems = {}
    /\ thresholdCalls = <<>>
    /\ standing = [g \in Governments |-> 0]
    /\ configs = <<>>
    /\ states = <<>>
    /\ crossings = <<>>
    /\ repDate = 1
    /\ repCalls = 0
    /\ repTick = NoReputationTick
    /\ repCall = NoRepCall
    /\ atrocityRecorded = {}
    /\ lookup = NoLookup
    /\ nearbyShips = <<>>
    /\ scene = NoScene
    /\ witnessResult = NoWitnessResult
    /\ actionLog = NewActionLog(0)
    /\ recorded = <<>>
    /\ encounterLog = NewEncounterLog(0)
    /\ encounterCall = NoEncounterCall

\* economy.RecordEvent(type, magnitude)
EconomyRecordEvent(type, magnitude) ==
    /\ economy' = RecordEvent(economy, type, magnitude)
    /\ today' = [today EXCEPT
                   !.events = @ + 1,
                   !.unitMerchantOnly =
                       @ /\ type = "MERCHANT_DESTROYED" /\ magnitude = 1]
    /\ tick' = NoTick
    /\ calls' = calls + 1
    /\ UNCHANGED <<date, reportVars, witnessVars, managerVars, reputationVars,
                   lookupVars, observeVars, logVars>>

\* economy.SetState(newState, commodity, strength)
EconomySetState(newState, commodity, strength) ==
    /\ economy' = SetState(economy, newState, commodity, strength)
    /\ today' = [today EXCEPT !.fresh = FALSE]
    /\ tick' = NoTick
    /\ calls' = calls + 1
    /\ UNCHANGED <<date, reportVars, witnessVars, managerVars, reputationVars,
                   lookupVars, observeVars, logVars>>

\* economy.Clear()
EconomyClear ==
    /\ economy' = ClearEconomy(economy)
    /\ today' = NewDay(ClearEconomy(economy))
    /\ tick' = NoTick
    /\ calls' = calls + 1
    /\ UNCHANGED <<date, reportVars, witnessVars, managerVars, reputationVars,
                   lookupVars, observeVars, logVars>>

\* economy.StepDaily(date, system), called with the next day's date.
EconomyStepDaily(npc) ==
    /\ date < MaxDays
    /\ LET r == StepDaily(economy, date + 1, npc)
       IN  /\ economy' = r.e
           /\ today' = NewDay(r.e)
           /\ tick' = [ran |-> TRUE, preState |-> economy.state,
                       preStrength |-> economy.stateStrength,
                       day |-> today,
                       system |-> npc.system, ret |-> r.ret,
                       applied |-> r.applied]
    /\ date' = date + 1
    /\ UNCHANGED <<calls, reportVars, witnessVars, managerVars, reputationVars,
                   lookupVars, observeVars, logVars>>

EconomyNext ==
    \/ \E ev \in RecordedEvents :
          /\ calls < MaxCalls
          /\ ev[1] \in EventTypes /\ ev[2] \in Magnitudes
          /\ EconomyRecordEvent(ev[1], ev[2])
    \/ \E newState \in EconomicStateType, strength \in Strengths :
          /\ calls < MaxCalls
          /\ EconomySetState(newState, CommodityFor(newState), strength)
    \/ /\ calls < MaxCalls
       /\ EconomyClear
    \/ \E npc \in NpcOutcomes : EconomyStepDaily(npc)

SpecEconomy == EconomyInit /\ [][EconomyNext]_vars

(***************************************************************************)
(* The merchant-loss scenario: a location with the default configuration   *)
(* on which only MERCHANT_DESTROYED events of magnitude 1 are recorded,    *)
(* with no background NPC activity (StepDaily is given a null System).     *)
(***************************************************************************)
MerchantScenarioInit ==
    /\ economy = NewEconomy(DefaultConfig)
    /\ today = NewDay(NewEconomy(DefaultConfig))
    /\ date = 0
    /\ calls = 0
    /\ tick = NoTick
    /\ report = ConstructedReport(0)
    /\ frames0 = 0
    /\ stepCalls = 0
    /\ stepRet = "none"
    /\ pendingReports = <<>>
    /\ ready = <<>>
    /\ nextId = 1
    /\ hist = [i \in ReportIds |-> NoHist]
    /\ links = ChainMap
    /\ systemEconomies = <<>>
    /\ cascade = NoCascade
    /\ received = [s \in Systems |-> <<>>]
    /\ enqueued = [s \in Systems |-> 0]
    /\ managerCalls = 0
    /\ defaultConfig = DefaultConfig
    /\ blackMarketSystems = {}
    /\ thresholdCalls = <<>>
    /\ standing = [g \in Governments |-> 0]
    /\ configs = <<>>
    /\ states = <<>>
    /\ crossings = <<>>
    /\ repDate = 1
    /\ repCalls = 0
    /\ repTick = NoReputationTick
    /\ repCall = NoRepCall
    /\ atrocityRecorded = {}
    /\ lookup = NoLookup
    /\ nearbyShips = <<>>
    /\ scene = NoScene
    /\ witnessResult = NoWitnessResult
    /\ actionLog = NewActionLog(0)
    /\ recorded = <<>>
    /\ encounterLog = NewEncounterLog(0)
    /\ encounterCall = NoEncounterCall

MerchantScenarioNext ==
    \/ /\ today.events < MaxDayEvents
       /\ EconomyRecordEvent("MERCHANT_DESTROYED", 1)
    \/ EconomyStepDaily(NoNpc)

SpecMerchantScenario == MerchantScenarioInit /\ [][MerchantScenarioNext]_vars

(***************************************************************************)
(* The recovery scenario: a location with the default configuration is    *)
(* put in a non-STABLE state at full strength by SetState and then only    *)
(* ticked, with no events recorded and no background NPC activity, so that *)
(* no threshold is met again.                                              *)
(***************************************************************************)
RecoveryInit ==
    /\ economy = NewEconomy(DefaultConfig)
    /\ today = NewDay(NewEconomy(DefaultConfig))
    /\ date = 0
    /\ calls = 0
    /\ tick = NoTick
    /\ report = ConstructedReport(0)
    /\ frames0 = 0
    /\ stepCalls = 0
    /\ stepRet = "none"
    /\ pendingReports = <<>>
    /\ ready = <<>>
    /\ nextId = 1
    /\ hist = [i \in ReportIds |-> NoHist]
    /\ links = ChainMap
    /\ systemEconomies = <<>>
    /\ cascade = NoCascade
    /\ received = [s \in Systems |-> <<>>]
    /\ enqueued = [s \in Systems |-> 0]
    /\ managerCalls = 0
    /\ defaultConfig = DefaultConfig
    /\ blackMarketSystems = {}
    /\ thresholdCalls = <<>>
    /\ standing = [g \in Governments |-> 0]
    /\ configs = <<>>
    /\ states = <<>>
    /\ crossings = <<>>
    /\ repDate = 1
    /\ repCalls = 0
    /\ repTick = NoReputationTick
    /\ repCall = NoRepCall
    /\ atrocityRecorded = {}
    /\ lookup = NoLookup
    /\ nearbyShips = <<>>
    /\ scene = NoScene
    /\ witnessResult = NoWitnessResult
    /\ actionLog = NewActionLog(0)
    /\ recorded = <<>>
    /\ encounterLog = NewEncounterLog(0)
    /\ encounterCall = NoEncounterCall

\* economy.StepDaily(date, nullptr), called with the next day's date, after
\* the state was set.
RecoveryStepDaily ==
    /\ calls = 1
    /\ date < MaxRecoveryTicks
    /\ LET r == StepDaily(economy, date + 1, NoNpc)
       IN  /\ economy' = r.e
           /\ today' = NewDay(r.e)
           /\ tick' = [ran |-> TRUE, preState |-> economy.state,
                       preStrength |-> economy.stateStrength,
                       day |-> today,
                       system |-> FALSE, ret |-> r.ret,
                       applied |-> r.applied]
    /\ date' = date + 1
    /\ UNCHANGED <<calls, reportVars, witnessVars, managerVars, reputationVars,
                   lookupVars, observeVars, logVars>>

RecoveryNext ==
    \/ \E newState \in EconomicStateType \ {"STABLE"} :
          /\ calls = 0
          /\ EconomySetState(newState, CommodityFor(newState), 100)
    \/ RecoveryStepDaily

SpecRecovery == RecoveryInit /\ [][RecoveryNext]_vars

(***************************************************************************)
(* The quiet scenario: the caller records events and may set a state       *)
(* before the first day passes; from then on nothing is recorded and       *)
(* StepDaily is called once a day with a null System, so that              *)
(* SimulateNPCActivity does nothing.  The game calls StepDaily on every    *)
(* day that passes, hence the fairness condition on the tick.              *)
(***************************************************************************)
\* The events recorded before the first day: one large event for each of
\* the counters that two different tests of EvaluateStateTransition read.
QuietEvents == {"MERCHANT_DESTROYED", "PIRATE_DESTROYED", "SMUGGLING_DETECTED"}

\* The counter RecordEvent adds an event of the given type to.
CounterOf(e, type) ==
    CASE type = "MERCHANT_DESTROYED" -> e.merchantLosses
      [] type = "PIRATE_DESTROYED" -> e.pirateLosses
      [] type = "SMUGGLING_DETECTED" -> e.smugglingLevel
      [] OTHER -> e.tradeVolume

\* economy.RecordEvent(type, 60) before the first day, once for each type
\* and before any SetState.
QuietRecordEvent(type) ==
    /\ date = 0
    /\ economy.state = "STABLE"
    /\ CounterOf(economy, type) = 0
    /\ EconomyRecordEvent(type, 60)

\* economy.SetState(newState, commodity, strength) before the first day,
\* once.
QuietSetState(newState, strength) ==
    /\ date = 0
    /\ economy.state = "STABLE"
    /\ newState # "STABLE"
    /\ EconomySetState(newState, CommodityFor(newState), strength)

\* economy.StepDaily(date, nullptr), called with the next day's date.
QuietStepDaily ==
    /\ date < MaxQuietTicks
    /\ LET r == StepDaily(economy, date + 1, NoNpc)
       IN  /\ economy' = r.e
           /\ today' = NewDay(r.e)
           /\ tick' = [ran |-> TRUE, preState |-> economy.state,
                       preStrength |-> economy.stateStrength,
                       day |-> today,
                       system |-> FALSE, ret |-> r.ret,
                       applied |-> r.applied]
    /\ date' = date + 1
    /\ UNCHANGED <<calls, reportVars, witnessVars, managerVars, reputationVars,
                   lookupVars, observeVars, logVars>>

QuietNext ==
    \/ \E type \in QuietEvents : QuietRecordEvent(type)
    \/ \E newState \in EconomicStateType, strength \in Strengths :
          QuietSetState(newState, strength)
    \/ QuietStepDaily

\* QuietStepDaily is the only step that changes date, and it is enabled
\* exactly when date < MaxQuietTicks: the condition below is weak fairness
\* of QuietStepDaily.
SpecQuiet ==
    /\ EconomyInit /\ [][QuietNext]_vars
    /\ WF_date(date < MaxQuietTicks /\ date' = date + 1)

(***************************************************************************)
(* An EconomicManager driven by its caller.                                *)
(***************************************************************************)
\* The systems whose economy was loaded with its own configuration; the
\* economies of the other systems are created on first use, with the default
\* configuration.
LoadedSystems == {"A", "B"}

\* The (type, magnitude) pairs passed to EconomicManager::RecordEvent: types
\* that always cascade, that cascade from a magnitude on, and a magnitude
\* that PropagateEffects rejects.
ManagerEvents ==
    {<<"MERCHANT_DESTROYED", 1>>, <<"MERCHANT_DESTROYED", 3>>,
     <<"MERCHANT_DESTROYED", 8>>, <<"MERCHANT_DESTROYED", -4>>,
     <<"LARGE_SALE", 1000>>, <<"SMUGGLING_DETECTED", 60>>}

\* One pair or more for every EconomicEventType (EconomicState.h:47-59), on
\* both sides of the magnitudes the switch of RecordEvent compares with.
CategoryEvents ==
    ({"MERCHANT_DESTROYED", "CONVOY_ATTACKED", "BLOCKADE_ACTIVE", "WAR_STARTED",
      "WAR_ENDED", "TRADE_COMPLETED", "PIRATE_DESTROYED", "RELIEF_DELIVERED"}
        \X {1, 1000})
    \cup ({"LARGE_PURCHASE", "LARGE_SALE"} \X {999, 1000})
    \cup ({"SMUGGLING_DETECTED"} \X {99, 100})
    \cup {<<"MERCHANT_DESTROYED", -4>>}

\* An EconomicManager after Load: the loaded systems have an economy whose
\* configuration sets the cascade radius (EconomicState.cpp:79-80, 125-126,
\* 790-794), and defaultConfig is as constructed or as a "default config"
\* node set it (EconomicState.cpp:797-798).
ManagerInit ==
    /\ \E m \in Maps, r \in 0..MaxRadius :
          /\ links = m
          /\ systemEconomies =
                [s \in LoadedSystems |->
                    NewEconomy([DefaultConfig EXCEPT !.cascadeRadius = r])]
    /\ cascade = NoCascade
    /\ received = [s \in Systems |-> <<>>]
    /\ enqueued = [s \in Systems |-> 0]
    /\ managerCalls = 0
    /\ defaultConfig \in Configs
    /\ blackMarketSystems = {}
    /\ thresholdCalls = <<>>
    /\ standing = [g \in Governments |-> 0]
    /\ configs = <<>>
    /\ states = <<>>
    /\ crossings = <<>>
    /\ repDate = 1
    /\ repCalls = 0
    /\ repTick = NoReputationTick
    /\ repCall = NoRepCall
    /\ atrocityRecorded = {}
    /\ lookup = NoLookup
    /\ nearbyShips = <<>>
    /\ scene = NoScene
    /\ witnessResult = NoWitnessResult
    /\ actionLog = NewActionLog(0)
    /\ recorded = <<>>
    /\ encounterLog = NewEncounterLog(0)
    /\ encounterCall = NoEncounterCall
    /\ economy = NewEconomy(DefaultConfig)
    /\ today = NewDay(NewEconomy(DefaultConfig))
    /\ date = 0
    /\ calls = 0
    /\ tick = NoTick
    /\ report = ConstructedReport(0)
    /\ frames0 = 0
    /\ stepCalls = 0
    /\ stepRet = "none"
    /\ pendingReports = <<>>
    /\ ready = <<>>
    /\ nextId = 1
    /\ hist = [i \in ReportIds |-> NoHist]

\* EconomicManager::RecordEvent(system, type, magnitude), up to the first
\* test of the loop in PropagateEffects: the event is recorded at the system
\* and, if the switch says so, PropagateEffects is called, which returns at
\* once for a radius or magnitude <= 0 and else sets up visited and toVisit.
ManagerRecordEvent(system, type, magnitude) ==
    /\ ~cascade.active
    /\ managerCalls < MaxManagerCalls
    /\ managerCalls' = managerCalls + 1
    /\ IF system = NullSystem
       THEN /\ cascade' = [cascade EXCEPT !.last =
                              [made |-> TRUE, system |-> system, type |-> type,
                               magnitude |-> magnitude,
                               before |-> systemEconomies,
                               propagated |-> FALSE]]
            /\ UNCHANGED <<systemEconomies, received, enqueued>>
       ELSE LET economies == RecordAt(systemEconomies, system, type, magnitude)
                radius == economies[system].config.cascadeRadius
                shouldCascade == ShouldCascade(type, magnitude)
                starts == /\ shouldCascade
                          /\ ~(radius <= 0 \/ magnitude <= 0)
            IN  /\ systemEconomies' = economies
                /\ received' = [s \in Systems |-> <<>>]
                /\ enqueued' = [s \in Systems |->
                                   IF starts /\ s = system THEN 1 ELSE 0]
                /\ cascade' =
                      [active |-> starts,
                       started |-> IF starts THEN 1 ELSE 0,
                       origin |-> system, type |-> type,
                       magnitude |-> magnitude, radius |-> radius,
                       visited |-> IF starts THEN {system} ELSE {},
                       toVisit |-> IF starts THEN <<<<system, 0>>>> ELSE <<>>,
                       last |-> [made |-> TRUE, system |-> system,
                                 type |-> type, magnitude |-> magnitude,
                                 before |-> systemEconomies,
                                 propagated |-> shouldCascade]]
    /\ UNCHANGED <<links, defaultConfig, blackMarketSystems, reportVars, witnessVars, economyVars, reputationVars,
                   lookupVars, observeVars, logVars>>

\* EconomicManager::SetDefaultConfig(config), called before the first event
\* is recorded.
ManagerSetDefaultConfig(config) ==
    /\ ~cascade.active
    /\ managerCalls = 0
    /\ defaultConfig # config
    /\ defaultConfig' = config
    /\ UNCHANGED <<links, systemEconomies, cascade, received, enqueued,
                   managerCalls, blackMarketSystems,
                   reportVars, witnessVars, economyVars, reputationVars,
                   lookupVars, observeVars, logVars>>

\* One pass of the while loop of PropagateEffects: the front of toVisit is
\* taken and, unless it is at the radius, its neighbors are visited.
CascadeVisit ==
    /\ cascade.active
    /\ cascade.toVisit # <<>>
    /\ LET current == Head(cascade.toVisit)[1]
           distance == Head(cascade.toVisit)[2]
           st0 == [visited |-> cascade.visited,
                   toVisit |-> Tail(cascade.toVisit),
                   economies |-> systemEconomies,
                   received |-> received, enqueued |-> enqueued]
           st == IF BeyondRadius(distance, cascade.radius) THEN st0
                 ELSE VisitNeighbors(st0, links[current], distance,
                                     cascade.type, cascade.magnitude)
       IN  /\ cascade' = [cascade EXCEPT !.visited = st.visited,
                                         !.toVisit = st.toVisit]
           /\ systemEconomies' = st.economies
           /\ received' = st.received
           /\ enqueued' = st.enqueued
    /\ UNCHANGED <<links, defaultConfig, blackMarketSystems, managerCalls, reportVars, witnessVars, economyVars,
                   reputationVars,
                   lookupVars, observeVars, logVars>>

\* The while loop finds toVisit empty: PropagateEffects and RecordEvent
\* return.
CascadeReturn ==
    /\ cascade.active
    /\ cascade.toVisit = <<>>
    /\ cascade' = [cascade EXCEPT !.active = FALSE]
    /\ UNCHANGED <<links, defaultConfig, blackMarketSystems, systemEconomies, received, enqueued, managerCalls,
                   reportVars, witnessVars, economyVars, reputationVars,
                   lookupVars, observeVars, logVars>>

\* The manager is given an event of every category, at a loaded system, at
\* one it has no economy for yet, or with a null System.
CategoriesNext ==
    \/ \E system \in {"A", "D", NullSystem}, ev \in CategoryEvents :
          ManagerRecordEvent(system, ev[1], ev[2])
    \/ CascadeVisit
    \/ CascadeReturn

SpecManagerCategories == ManagerInit /\ [][CategoriesNext]_vars

ManagerNext ==
    \/ \E system \in Systems \cup {NullSystem}, ev \in ManagerEvents :
          ManagerRecordEvent(system, ev[1], ev[2])
    \/ \E config \in Configs : ManagerSetDefaultConfig(config)
    \/ CascadeVisit
    \/ CascadeReturn

SpecManager == ManagerInit /\ [][ManagerNext]_vars

\* The manager runs on one thread and RecordEvent does not block: a cascade
\* that has started keeps taking the steps of its loop.
SpecManagerLive ==
    SpecManager /\ WF_vars(CascadeVisit) /\ WF_vars(CascadeReturn)

(***************************************************************************)
(* GetThreshold called on its own.                                         *)
(***************************************************************************)
\* The standings passed to GetThreshold, in hundredths: every breakpoint, the
\* values one hundredth below and above it, and values far from any.
ThresholdInputs ==
    {-15000, -10001, -10000, -9999, -5001, -5000, -4999, -2501, -2500, -2499,
     0, 2499, 2500, 2501, 4999, 5000, 5001, 9999, 10000, 10001, 15000}

ThresholdInit ==
    /\ thresholdCalls = <<>>
    /\ standing = [g \in Governments |-> 0]
    /\ configs = <<>>
    /\ states = <<>>
    /\ crossings = <<>>
    /\ repDate = 1
    /\ repCalls = 0
    /\ repTick = NoReputationTick
    /\ repCall = NoRepCall
    /\ atrocityRecorded = {}
    /\ lookup = NoLookup
    /\ nearbyShips = <<>>
    /\ scene = NoScene
    /\ witnessResult = NoWitnessResult
    /\ actionLog = NewActionLog(0)
    /\ recorded = <<>>
    /\ encounterLog = NewEncounterLog(0)
    /\ encounterCall = NoEncounterCall
    /\ report = ConstructedReport(0)
    /\ frames0 = 0
    /\ stepCalls = 0
    /\ stepRet = "none"
    /\ pendingReports = <<>>
    /\ ready = <<>>
    /\ nextId = 1
    /\ hist = [i \in ReportIds |-> NoHist]
    /\ economy = NewEconomy(DefaultConfig)
    /\ today = NewDay(NewEconomy(DefaultConfig))
    /\ date = 0
    /\ calls = 0
    /\ tick = NoTick
    /\ links = ChainMap
    /\ systemEconomies = <<>>
    /\ cascade = NoCascade
    /\ received = [s \in Systems |-> <<>>]
    /\ enqueued = [s \in Systems |-> 0]
    /\ managerCalls = 0
    /\ defaultConfig = DefaultConfig
    /\ blackMarketSystems = {}

\* ReputationManager::GetThreshold(reputation): a static function; the call
\* and its result are remembered.
CallGetThreshold(reputation) ==
    /\ thresholdCalls' =
          LET call == [reputation |-> reputation,
                       threshold |-> GetThreshold(reputation)]
          IN  IF Len(thresholdCalls) < 2 THEN Append(thresholdCalls, call)
              ELSE <<thresholdCalls[2], call>>
    /\ UNCHANGED <<standing, configs, states, crossings, repDate, repCalls,
                   repTick, repCall, atrocityRecorded,
                   reportVars, witnessVars, economyVars, managerVars,
                   lookupVars, observeVars, logVars>>

ThresholdNext ==
    \E reputation \in ThresholdInputs : CallGetThreshold(reputation)

SpecThreshold == ThresholdInit /\ [][ThresholdNext]_vars

(***************************************************************************)
(* A ReputationManager driven by its callers.                              *)
(***************************************************************************)
\* The standing g1 starts with, in hundredths.
InitialStandings == {-15000, -6000, -2600, 2000, 3000, 15000}

\* The standing g2 starts with: just above the FRIENDLY breakpoint.
SecondStanding == 2505

\* A list of MAX_EVENT_HISTORY events of different changes, as StepDaily
\* leaves a long list.
FullHistory ==
    [i \in 1..REPUTATION_MAX_EVENT_HISTORY |->
        [date |-> 1, change |-> -i, wasAtrocity |-> FALSE]]

\* The states GovernmentReputationState::Load produces for g1
\* (ReputationManager.cpp:75-115): as constructed; a full list of events;
\* many good deeds and a positive interaction today; an atrocity on day 1
\* and no positive interaction for 40 days.
LoadedReputationStates ==
    {NewReputationState,
     [NewReputationState EXCEPT !.recentEvents = FullHistory,
                                !.lastInteraction = 1],
     [NewReputationState EXCEPT !.goodDeedCount = 12, !.lastInteraction = 1],
     [NewReputationState EXCEPT !.hasCommittedAtrocity = TRUE,
                                !.atrocityDate = 1,
                                !.daysSincePositiveInteraction = 40,
                                !.troughReputation = -15000]}

\* The values Politics sets a standing to between ticks.
SetStandings == {-10000, 2600}

\* The changes passed to RecordChange.
Changes == {-5, 5}

\* A ReputationManager after Load: g1 has its own configuration, g2 the
\* default one; each of them may or may not have an entry in states.
ReputationInit ==
    /\ \E c \in ReputationConfigs, v \in InitialStandings,
          known \in SUBSET Governments, l \in LoadedReputationStates :
          /\ l.recentEvents # <<>>
                => c = DefaultReputationConfig /\ v = 2000 /\ known = {"g1"}
          /\ configs = [g \in {"g1"} |-> c]
          /\ standing = [g \in Governments |->
                            IF g = "g1" THEN v ELSE SecondStanding]
          /\ states = [g \in known |->
                          IF g = "g1" THEN l ELSE NewReputationState]
    /\ thresholdCalls = <<>>
    /\ crossings = <<>>
    /\ repDate = 1
    /\ repCalls = 0
    /\ repTick = NoReputationTick
    /\ repCall = NoRepCall
    /\ atrocityRecorded = {}
    /\ lookup = NoLookup
    /\ nearbyShips = <<>>
    /\ scene = NoScene
    /\ witnessResult = NoWitnessResult
    /\ actionLog = NewActionLog(0)
    /\ recorded = <<>>
    /\ encounterLog = NewEncounterLog(0)
    /\ encounterCall = NoEncounterCall
    /\ report = ConstructedReport(0)
    /\ frames0 = 0
    /\ stepCalls = 0
    /\ stepRet = "none"
    /\ pendingReports = <<>>
    /\ ready = <<>>
    /\ nextId = 1
    /\ hist = [i \in ReportIds |-> NoHist]
    /\ economy = NewEconomy(DefaultConfig)
    /\ today = NewDay(NewEconomy(DefaultConfig))
    /\ date = 0
    /\ calls = 0
    /\ tick = NoTick
    /\ links = ChainMap
    /\ systemEconomies = <<>>
    /\ cascade = NoCascade
    /\ received = [s \in Systems |-> <<>>]
    /\ enqueued = [s \in Systems |-> 0]
    /\ managerCalls = 0
    /\ defaultConfig = DefaultConfig
    /\ blackMarketSystems = {}

\* RecordChange applying the change to the standing as well.
RepRecordChangeApplied(gov, change, wasAtrocity) ==
    /\ repCalls < MaxRepCalls
    /\ repCalls' = repCalls + 1
    /\ states' =
          IF gov = NullGovernment THEN states
          ELSE LET st == RecordReputationEvent(GetOrCreateState(states, gov),
                                               repDate, change, wasAtrocity)
                   currentRep == Reputation(standing, gov)
               IN  WithState(states, gov,
                       [st EXCEPT !.peakReputation = Max(@, currentRep),
                                  !.troughReputation = Min(@, currentRep)])
    /\ standing' = IF gov = NullGovernment THEN standing
                   ELSE SetReputation(standing, gov,
                            Reputation(standing, gov) + change * RepScale)
    /\ crossings' = <<>>
    /\ repTick' = NoReputationTick
    /\ repCall' = [op |-> "RecordChange", gov |-> gov, before |-> states,
                    standingBefore |-> standing, loaded |-> <<>>]
    /\ UNCHANGED atrocityRecorded
    /\ UNCHANGED <<thresholdCalls, configs, repDate,
                   reportVars, witnessVars, economyVars, managerVars,
                   lookupVars, observeVars, logVars>>

\* ReputationManager::RecordChange(gov, date, change, reason, wasAtrocity)
RepRecordChange(gov, change, wasAtrocity) ==
    /\ repCalls < MaxRepCalls
    /\ repCalls' = repCalls + 1
    /\ states' =
          IF gov = NullGovernment THEN states
          ELSE LET st == RecordReputationEvent(GetOrCreateState(states, gov),
                                               repDate, change, wasAtrocity)
                   currentRep == Reputation(standing, gov)
               IN  WithState(states, gov,
                       [st EXCEPT !.peakReputation = Max(@, currentRep),
                                  !.troughReputation = Min(@, currentRep)])
    /\ crossings' = <<>>
    /\ repTick' = NoReputationTick
    /\ repCall' = [op |-> "RecordChange", gov |-> gov, before |-> states,
                    standingBefore |-> standing, loaded |-> <<>>]
    /\ UNCHANGED atrocityRecorded
    /\ UNCHANGED <<thresholdCalls, standing, configs, repDate,
                   reportVars, witnessVars, economyVars, managerVars,
                   lookupVars, observeVars, logVars>>

\* ReputationManager::RecordGoodDeed(gov, date)
RepRecordGoodDeed(gov) ==
    /\ repCalls < MaxRepCalls
    /\ repCalls' = repCalls + 1
    /\ states' =
          IF gov = NullGovernment THEN states
          ELSE WithState(states, gov,
                   [GetOrCreateState(states, gov) EXCEPT
                       !.goodDeedCount = @ + 1,
                       !.lastInteraction = repDate,
                       !.daysSincePositiveInteraction = 0])
    /\ crossings' = <<>>
    /\ repTick' = NoReputationTick
    /\ repCall' = [op |-> "RecordGoodDeed", gov |-> gov, before |-> states,
                    standingBefore |-> standing, loaded |-> <<>>]
    /\ UNCHANGED atrocityRecorded
    /\ UNCHANGED <<thresholdCalls, standing, configs, repDate,
                   reportVars, witnessVars, economyVars, managerVars,
                   lookupVars, observeVars, logVars>>

\* ReputationManager::RecordAtrocity(gov, date)
RepRecordAtrocity(gov) ==
    /\ repCalls < MaxRepCalls
    /\ repCalls' = repCalls + 1
    /\ states' =
          IF gov = NullGovernment THEN states
          ELSE WithState(states, gov,
                   [GetOrCreateState(states, gov) EXCEPT
                       !.hasCommittedAtrocity = TRUE,
                       !.atrocityDate = repDate,
                       !.lastInteraction = repDate])
    /\ crossings' = <<>>
    /\ repTick' = NoReputationTick
    /\ repCall' = [op |-> "RecordAtrocity", gov |-> gov, before |-> states,
                    standingBefore |-> standing, loaded |-> <<>>]
    /\ atrocityRecorded' = atrocityRecorded \cup {gov}
    /\ UNCHANGED <<thresholdCalls, standing, configs, repDate,
                   reportVars, witnessVars, economyVars, managerVars,
                   lookupVars, observeVars, logVars>>

\* ReputationManager::Clear
RepClear ==
    /\ repCalls < MaxRepCalls
    /\ repCalls' = repCalls + 1
    /\ configs' = <<>>
    /\ states' = <<>>
    /\ crossings' = <<>>
    /\ repTick' = NoReputationTick
    /\ repCall' = [op |-> "Clear", gov |-> NullGovernment, before |-> states,
                    standingBefore |-> standing, loaded |-> <<>>]
    /\ atrocityRecorded' = {}
    /\ UNCHANGED <<thresholdCalls, standing, repDate,
                   reportVars, witnessVars, economyVars, managerVars,
                   lookupVars, observeVars, logVars>>

\* The owner of the standings (Politics) sets the standing of a government
\* between two ticks.
PoliticsSetReputation(gov, value) ==
    /\ repCalls < MaxRepCalls
    /\ repCalls' = repCalls + 1
    /\ standing' = SetReputation(standing, gov, value)
    /\ crossings' = <<>>
    /\ repTick' = NoReputationTick
    /\ repCall' = [op |-> "SetReputation", gov |-> gov, before |-> states,
                    standingBefore |-> standing, loaded |-> <<>>]
    /\ UNCHANGED atrocityRecorded
    /\ UNCHANGED <<thresholdCalls, configs, states, repDate,
                   reportVars, witnessVars, economyVars, managerVars,
                   lookupVars, observeVars, logVars>>

\* ReputationManager::StepDaily(currentDate), called with the next day's
\* date.
RepStepDaily ==
    /\ repDate <= MaxRepDays
    /\ LET r == StepGovernments(
                    [states |-> states, standing |-> standing,
                     crossings |-> <<>>, decayed |-> standing],
                    configs, GovernmentOrder, repDate + 1)
       IN  /\ states' = r.states
           /\ standing' = r.standing
           /\ crossings' = r.crossings
           /\ repTick' = [ran |-> TRUE,
                          known |-> DOMAIN states \cap Governments,
                          old |-> standing, decayed |-> r.decayed]
           /\ repCall' = [op |-> "StepDaily", gov |-> NullGovernment,
                          before |-> states, standingBefore |-> standing,
                          loaded |-> <<>>]
           /\ atrocityRecorded' =
                 {f \in atrocityRecorded :
                     ~(/\ f \in DOMAIN states
                       /\ states[f].hasCommittedAtrocity
                       /\ ~r.states[f].hasCommittedAtrocity)}
    /\ repDate' = repDate + 1
    /\ UNCHANGED <<thresholdCalls, configs, repCalls,
                   reportVars, witnessVars, economyVars, managerVars,
                   lookupVars, observeVars, logVars>>

\* ReputationManager::Save, and ReputationManager::Load of what it wrote
\* into a manager as constructed.
RepSaveLoad ==
    /\ repCalls < MaxRepCalls
    /\ repCalls' = repCalls + 1
    /\ repCall' = [op |-> "SaveLoad", gov |-> NullGovernment,
                   before |-> states, standingBefore |-> standing,
                   loaded |-> ManagerLoad(ManagerSave(states))]
    /\ UNCHANGED <<thresholdCalls, standing, configs, states, crossings,
                   repDate, repTick, atrocityRecorded,
                   reportVars, witnessVars, economyVars, managerVars,
                   lookupVars, observeVars, logVars>>

ReputationNext ==
    \/ \E gov \in Governments \cup {NullGovernment}, change \in Changes,
          wasAtrocity \in BOOLEAN : RepRecordChange(gov, change, wasAtrocity)
    \/ \E gov \in Governments \cup {NullGovernment} : RepRecordGoodDeed(gov)
    \/ \E gov \in Governments \cup {NullGovernment} : RepRecordAtrocity(gov)
    \/ RepClear
    \/ \E value \in SetStandings : PoliticsSetReputation("g1", value)
    \/ RepStepDaily
    \/ RepSaveLoad

SpecReputation == ReputationInit /\ [][ReputationNext]_vars

(***************************************************************************)
(* Lookups in the registries of the two managers.                          *)
(***************************************************************************)
\* The managers after Load: some of the systems A and B have an economy, A's
\* possibly in LOCKDOWN; a system may be a known black market; some of the
\* governments have a reputation state, g1's possibly with an atrocity, and
\* g1 may have a configuration that forgives.
LookupInit ==
    /\ \E loaded \in SUBSET LoadedSystems, lockdown \in BOOLEAN :
          systemEconomies =
              [s \in loaded |->
                  IF lockdown /\ s = "A"
                  THEN [NewEconomy(DefaultConfig) EXCEPT
                           !.state = "LOCKDOWN", !.stateStrength = 50,
                           !.stateChangeDate = 1]
                  ELSE NewEconomy(DefaultConfig)]
    /\ blackMarketSystems \in {{}, {"A"}, {"C"}}
    /\ \E known \in SUBSET Governments, atrocity \in BOOLEAN :
          states =
              [g \in known |->
                  IF atrocity /\ g = "g1"
                  THEN [NewReputationState EXCEPT
                           !.hasCommittedAtrocity = TRUE, !.atrocityDate = 1,
                           !.lastInteraction = 1,
                           !.recentEvents = <<[date |-> 1, change |-> -5,
                                               wasAtrocity |-> TRUE]>>]
                  ELSE NewReputationState]
    /\ configs \in {<<>>, [g \in {"g1"} |-> HalfReputationConfig]}
    /\ lookup = NoLookup
    /\ links = ChainMap
    /\ cascade = NoCascade
    /\ received = [s \in Systems |-> <<>>]
    /\ enqueued = [s \in Systems |-> 0]
    /\ managerCalls = 0
    /\ defaultConfig = DefaultConfig
    /\ thresholdCalls = <<>>
    /\ standing = [g \in Governments |-> 0]
    /\ crossings = <<>>
    /\ repDate = 1
    /\ repCalls = 0
    /\ repTick = NoReputationTick
    /\ repCall = NoRepCall
    /\ atrocityRecorded = {}
    /\ nearbyShips = <<>>
    /\ scene = NoScene
    /\ witnessResult = NoWitnessResult
    /\ actionLog = NewActionLog(0)
    /\ recorded = <<>>
    /\ encounterLog = NewEncounterLog(0)
    /\ encounterCall = NoEncounterCall
    /\ economy = NewEconomy(DefaultConfig)
    /\ today = NewDay(NewEconomy(DefaultConfig))
    /\ date = 0
    /\ calls = 0
    /\ tick = NoTick
    /\ report = ConstructedReport(0)
    /\ frames0 = 0
    /\ stepCalls = 0
    /\ stepRet = "none"
    /\ pendingReports = <<>>
    /\ ready = <<>>
    /\ nextId = 1
    /\ hist = [i \in ReportIds |-> NoHist]

\* What a lookup leaves in lookup.
Looked(op, key, result) ==
    [op |-> op, key |-> key, result |-> result,
     economiesBefore |-> systemEconomies, statesBefore |-> states]

\* ReputationManager::GetState(gov)
RepGetState(gov) ==
    /\ lookup' = Looked("GetState", gov, GetState(states, gov))
    /\ UNCHANGED <<reportVars, witnessVars, economyVars, managerVars,
                   reputationVars, observeVars, logVars>>

\* ReputationManager::HasUnforgivenAtrocity(gov)
RepHasUnforgivenAtrocity(gov) ==
    /\ lookup' = Looked("HasUnforgivenAtrocity", gov,
                        HasUnforgivenAtrocity(states, configs, gov))
    /\ UNCHANGED <<reportVars, witnessVars, economyVars, managerVars,
                   reputationVars, observeVars, logVars>>

\* ReputationManager::GetRecentEvents(gov, days)
RepGetRecentEvents(gov) ==
    /\ lookup' = Looked("GetRecentEvents", gov, GetRecentEvents(states, gov))
    /\ UNCHANGED <<reportVars, witnessVars, economyVars, managerVars,
                   reputationVars, observeVars, logVars>>

\* The non-const EconomicManager::GetSystemEconomy(system)
ManagerGetSystemEconomy(system) ==
    /\ lookup' = Looked("GetSystemEconomy", system,
                        GetSystemEconomy(systemEconomies, system))
    /\ systemEconomies' = EconomiesAfterGet(systemEconomies, system)
    /\ UNCHANGED <<links, cascade, received, enqueued, managerCalls,
                   defaultConfig, blackMarketSystems,
                   reportVars, witnessVars, economyVars, reputationVars,
                   observeVars, logVars>>

\* The const EconomicManager::GetSystemEconomy(system)
ManagerGetSystemEconomyConst(system) ==
    /\ lookup' = Looked("GetSystemEconomyConst", system,
                        GetSystemEconomyConst(systemEconomies, system))
    /\ UNCHANGED <<reportVars, witnessVars, economyVars, managerVars,
                   reputationVars, observeVars, logVars>>

\* EconomicManager::HasBlackMarket(system)
ManagerHasBlackMarket(system) ==
    /\ lookup' = Looked("HasBlackMarket", system,
                        HasBlackMarket(blackMarketSystems, systemEconomies,
                                       system))
    /\ UNCHANGED <<reportVars, witnessVars, economyVars, managerVars,
                   reputationVars, observeVars, logVars>>

LookupNext ==
    \/ \E gov \in Governments \cup {NullGovernment} : RepGetState(gov)
    \/ \E gov \in Governments \cup {NullGovernment} :
          RepHasUnforgivenAtrocity(gov)
    \/ \E gov \in Governments \cup {NullGovernment} : RepGetRecentEvents(gov)
    \/ \E system \in Systems \cup {NullSystem} : ManagerGetSystemEconomy(system)
    \/ \E system \in Systems \cup {NullSystem} :
          ManagerGetSystemEconomyConst(system)
    \/ \E system \in Systems \cup {NullSystem} : ManagerHasBlackMarket(system)

SpecLookup == LookupInit /\ [][LookupNext]_vars

(***************************************************************************)
(* A call of WitnessSystem::CheckWitnesses.                                *)
(***************************************************************************)
\* Distances on and next to the two ranges, cloaking levels on and below the
\* observer threshold, and the scan-power attributes of a ship.
ObserverDistances == {5000, 5001, 7500, 7501}
ObserverCloakings == {0, OBSERVER_CLOAK_THRESHOLD}
ScanPowers ==
    {[cargo |-> 0, outfit |-> 0, tactical |-> 0],
     [cargo |-> 1, outfit |-> 0, tactical |-> 0],
     [cargo |-> 0, outfit |-> 0, tactical |-> 2]}

\* The ships that can come first in the list.
Observers ==
    [status : {"active", "destroyed", "disabled", "perpetrator", "victim"},
     distance : ObserverDistances, cloaking : ObserverCloakings,
     scan : ScanPowers, gov : ShipGovernments]

\* The ships that can follow it: a civilian bystander close to the event and
\* a hostile one with a scanner far from it.
OtherObservers ==
    {[status |-> "active", distance |-> 1000, cloaking |-> 0,
      scan |-> [cargo |-> 0, outfit |-> 0, tactical |-> 0],
      gov |-> [present |-> TRUE, enemy |-> FALSE, law |-> FALSE,
               enemyOfVictim |-> TRUE]],
     [status |-> "active", distance |-> 6000, cloaking |-> 0,
      scan |-> [cargo |-> 0, outfit |-> 3, tactical |-> 0],
      gov |-> [present |-> TRUE, enemy |-> TRUE, law |-> FALSE,
               enemyOfVictim |-> FALSE]]}

\* The perpetrators (none, uncloaked, cloaked below and at the threshold),
\* the victims (none, without and with a government) and the ranges passed:
\* the default argument, none (0) and a custom one.
Perpetrators ==
    {[present |-> FALSE, cloaking |-> 0]}
    \cup {[present |-> TRUE, cloaking |-> c] :
             c \in {0, CLOAK_WITNESS_THRESHOLD - 1, CLOAK_WITNESS_THRESHOLD}}
Victims ==
    {[present |-> FALSE, gov |-> NoGovernment],
     [present |-> TRUE, gov |-> NoGovernment],
     [present |-> TRUE,
      gov |-> [present |-> TRUE, enemy |-> FALSE, law |-> FALSE,
               enemyOfVictim |-> FALSE]]}
CustomRanges == {DEFAULT_WITNESS_RANGE, 0, 3000}

ObserveInit ==
    /\ \E first \in Observers,
          rest \in UNION {[1..k -> OtherObservers] : k \in 0..(MaxNearbyShips - 1)} :
          nearbyShips = <<first>> \o rest
    /\ \E p \in Perpetrators, v \in Victims, r \in CustomRanges :
          scene = [perpetrator |-> p, victim |-> v, customRange |-> r]
    /\ witnessResult = NoWitnessResult
    /\ actionLog = NewActionLog(0)
    /\ recorded = <<>>
    /\ encounterLog = NewEncounterLog(0)
    /\ encounterCall = NoEncounterCall
    /\ lookup = NoLookup
    /\ links = ChainMap
    /\ systemEconomies = <<>>
    /\ cascade = NoCascade
    /\ received = [s \in Systems |-> <<>>]
    /\ enqueued = [s \in Systems |-> 0]
    /\ managerCalls = 0
    /\ defaultConfig = DefaultConfig
    /\ blackMarketSystems = {}
    /\ thresholdCalls = <<>>
    /\ standing = [g \in Governments |-> 0]
    /\ configs = <<>>
    /\ states = <<>>
    /\ crossings = <<>>
    /\ repDate = 1
    /\ repCalls = 0
    /\ repTick = NoReputationTick
    /\ repCall = NoRepCall
    /\ atrocityRecorded = {}
    /\ economy = NewEconomy(DefaultConfig)
    /\ today = NewDay(NewEconomy(DefaultConfig))
    /\ date = 0
    /\ calls = 0
    /\ tick = NoTick
    /\ report = ConstructedReport(0)
    /\ frames0 = 0
    /\ stepCalls = 0
    /\ stepRet = "none"
    /\ pendingReports = <<>>
    /\ ready = <<>>
    /\ nextId = 1
    /\ hist = [i \in ReportIds |-> NoHist]

\* WitnessSystem::CheckWitnesses(eventLocation, perpetrator, victim,
\* nearbyShips, customRange)
CallCheckWitnesses ==
    /\ ~witnessResult.called
    /\ witnessResult' =
          [called |-> TRUE,
           witnesses |-> CheckWitnesses(scene.perpetrator, scene.victim,
                                        nearbyShips, scene.customRange)]
    /\ UNCHANGED <<nearbyShips, scene, reportVars, witnessVars, economyVars,
                   managerVars, reputationVars, lookupVars, logVars>>

ObserveNext == CallCheckWitnesses

SpecObserve == ObserveInit /\ [][ObserveNext]_vars

(***************************************************************************)
(* GetEffectiveRecoveryRate called on its own.                             *)
(***************************************************************************)
\* The values of daysSincePositiveInteraction drawn: on both sides of 30 and
\* of the day the bonus reaches its cap.
AbsenceDays == {0, 30, 31, 45, 80, 81}

\* A ReputationManager after Load: g1 has its own configuration and a state
\* with or without an atrocity flag; g2 has neither.
RecoveryRateInit ==
    /\ \E c \in ReputationConfigs, days \in AbsenceDays, atrocity \in BOOLEAN :
          /\ configs = [g \in {"g1"} |-> c]
          /\ states =
                [g \in {"g1"} |->
                    [NewReputationState EXCEPT
                        !.hasCommittedAtrocity = atrocity,
                        !.atrocityDate = IF atrocity THEN 1 ELSE 0,
                        !.daysSincePositiveInteraction = days]]
    /\ lookup = NoLookup
    /\ report = ConstructedReport(0)
    /\ frames0 = 0
    /\ stepCalls = 0
    /\ stepRet = "none"
    /\ pendingReports = <<>>
    /\ ready = <<>>
    /\ nextId = 1
    /\ hist = [i \in ReportIds |-> NoHist]
    /\ economy = NewEconomy(DefaultConfig)
    /\ today = NewDay(NewEconomy(DefaultConfig))
    /\ date = 0
    /\ calls = 0
    /\ tick = NoTick
    /\ links = ChainMap
    /\ systemEconomies = <<>>
    /\ cascade = NoCascade
    /\ received = [s \in Systems |-> <<>>]
    /\ enqueued = [s \in Systems |-> 0]
    /\ managerCalls = 0
    /\ defaultConfig = DefaultConfig
    /\ blackMarketSystems = {}
    /\ thresholdCalls = <<>>
    /\ standing = [g \in Governments |-> 0]
    /\ crossings = <<>>
    /\ repDate = 1
    /\ repCalls = 0
    /\ repTick = NoReputationTick
    /\ repCall = NoRepCall
    /\ atrocityRecorded = {}
    /\ nearbyShips = <<>>
    /\ scene = NoScene
    /\ witnessResult = NoWitnessResult
    /\ actionLog = NewActionLog(0)
    /\ recorded = <<>>
    /\ encounterLog = NewEncounterLog(0)
    /\ encounterCall = NoEncounterCall

\* ReputationManager::GetEffectiveRecoveryRate(gov)
RepGetEffectiveRecoveryRate(gov) ==
    /\ lookup' = Looked("GetEffectiveRecoveryRate", gov,
                        GetEffectiveRecoveryRate(
                            GetConfig(configs, gov), gov \in DOMAIN states,
                            GetOrCreateState(states, gov)))
    /\ UNCHANGED <<reportVars, witnessVars, economyVars, managerVars,
                   reputationVars, observeVars, logVars>>

RecoveryRateNext ==
    \E gov \in Governments \cup {NullGovernment} : RepGetEffectiveRecoveryRate(gov)

SpecRecoveryRate == RecoveryRateInit /\ [][RecoveryRateNext]_vars

(***************************************************************************)
(* An ActionLog driven by its caller.                                      *)
(***************************************************************************)
\* The sizes passed to the constructor and to SetMaxRecords (a size_t).
LogSizes == 0..3

\* The event types of the records passed to Record.
LoggedEventTypes == {"DESTROY", "ASSIST"}

\* An ActionLog after construction with a maximum size.
ActionLogInit ==
    /\ \E max \in LogSizes : actionLog = NewActionLog(max)
    /\ recorded = <<>>
    /\ report = ConstructedReport(0)
    /\ frames0 = 0
    /\ stepCalls = 0
    /\ stepRet = "none"
    /\ pendingReports = <<>>
    /\ ready = <<>>
    /\ nextId = 1
    /\ hist = [i \in ReportIds |-> NoHist]
    /\ economy = NewEconomy(DefaultConfig)
    /\ today = NewDay(NewEconomy(DefaultConfig))
    /\ date = 0
    /\ calls = 0
    /\ tick = NoTick
    /\ links = ChainMap
    /\ systemEconomies = <<>>
    /\ cascade = NoCascade
    /\ received = [s \in Systems |-> <<>>]
    /\ enqueued = [s \in Systems |-> 0]
    /\ managerCalls = 0
    /\ defaultConfig = DefaultConfig
    /\ blackMarketSystems = {}
    /\ thresholdCalls = <<>>
    /\ standing = [g \in Governments |-> 0]
    /\ configs = <<>>
    /\ states = <<>>
    /\ crossings = <<>>
    /\ repDate = 1
    /\ repCalls = 0
    /\ repTick = NoReputationTick
    /\ repCall = NoRepCall
    /\ atrocityRecorded = {}
    /\ lookup = NoLookup
    /\ nearbyShips = <<>>
    /\ scene = NoScene
    /\ witnessResult = NoWitnessResult
    /\ encounterLog = NewEncounterLog(0)
    /\ encounterCall = NoEncounterCall

\* actionLog.Record(date, eventType, nullptr, systemName): the caller names
\* the system after the number of the call, so that every record differs.
ActionLogRecord(eventType) ==
    /\ Len(recorded) < MaxLogRecords
    /\ LET record == [eventType |-> eventType, systemName |-> Len(recorded) + 1]
       IN  /\ actionLog' = LogRecord(actionLog, record)
           /\ recorded' = Append(recorded, record)
    /\ UNCHANGED <<encounterLog, encounterCall, reportVars, witnessVars,
                   economyVars, managerVars, reputationVars, lookupVars,
                   observeVars>>

\* actionLog.SetMaxRecords(max)
ActionLogSetMaxRecords(max) ==
    /\ actionLog' = LogSetMaxRecords(actionLog, max)
    /\ UNCHANGED <<recorded, encounterLog, encounterCall, reportVars,
                   witnessVars, economyVars, managerVars, reputationVars,
                   lookupVars, observeVars>>

ActionLogNext ==
    \/ \E eventType \in LoggedEventTypes : ActionLogRecord(eventType)
    \/ \E max \in LogSizes : ActionLogSetMaxRecords(max)

SpecActionLog == ActionLogInit /\ [][ActionLogNext]_vars

(***************************************************************************)
(* An EncounterLog driven by its caller.                                   *)
(***************************************************************************)
\* The dates passed to GetOrCreate, as day numbers: a caller may pass any
\* date, also one before those already in the log.
EncounterDates == 1..3

\* The systems passed to GetOrCreate; "" is the default argument.
EncounterSystems == {"", "Sol"}

\* The sizes passed to the constructor and to SetMaxRecords (a size_t).
EncounterSizes == 0..2

\* An EncounterLog after construction with a maximum size.
EncounterLogInit ==
    /\ \E max \in EncounterSizes : encounterLog = NewEncounterLog(max)
    /\ encounterCall = NoEncounterCall
    /\ report = ConstructedReport(0)
    /\ frames0 = 0
    /\ stepCalls = 0
    /\ stepRet = "none"
    /\ pendingReports = <<>>
    /\ ready = <<>>
    /\ nextId = 1
    /\ hist = [i \in ReportIds |-> NoHist]
    /\ economy = NewEconomy(DefaultConfig)
    /\ today = NewDay(NewEconomy(DefaultConfig))
    /\ date = 0
    /\ calls = 0
    /\ tick = NoTick
    /\ links = ChainMap
    /\ systemEconomies = <<>>
    /\ cascade = NoCascade
    /\ received = [s \in Systems |-> <<>>]
    /\ enqueued = [s \in Systems |-> 0]
    /\ managerCalls = 0
    /\ defaultConfig = DefaultConfig
    /\ blackMarketSystems = {}
    /\ thresholdCalls = <<>>
    /\ standing = [g \in Governments |-> 0]
    /\ configs = <<>>
    /\ states = <<>>
    /\ crossings = <<>>
    /\ repDate = 1
    /\ repCalls = 0
    /\ repTick = NoReputationTick
    /\ repCall = NoRepCall
    /\ atrocityRecorded = {}
    /\ lookup = NoLookup
    /\ nearbyShips = <<>>
    /\ scene = NoScene
    /\ witnessResult = NoWitnessResult
    /\ actionLog = NewActionLog(0)
    /\ recorded = <<>>

\* auto &record = encounterLog.GetOrCreate(uuid, seen, system), and a read of
\* record: of the record in the map when the reference is valid, of freed
\* memory when it dangles.
EncounterGetOrCreate(uuid, seen, system) ==
    /\ encounterCall.calls < MaxEncounters
    /\ LET r == GetOrCreate(encounterLog, uuid, seen, system)
       IN  /\ encounterLog' = r.log
           /\ \E read \in IF r.valid THEN {r.log.records[uuid]}
                          ELSE {r.record, GarbageRecord} :
                 encounterCall' = [op |-> "GetOrCreate", uuid |-> uuid,
                                   valid |-> r.valid, returned |-> read,
                                   calls |-> encounterCall.calls + 1]
    /\ UNCHANGED <<actionLog, recorded, reportVars, witnessVars, economyVars,
                   managerVars, reputationVars, lookupVars, observeVars>>

\* encounterLog.SetMaxRecords(max)
EncounterLogSetMaxRecords(max) ==
    /\ encounterLog' = EncounterSetMaxRecords(encounterLog, max)
    /\ encounterCall' = [op |-> "SetMaxRecords", uuid |-> "", valid |-> TRUE,
                         returned |-> GarbageRecord,
                         calls |-> encounterCall.calls]
    /\ UNCHANGED <<actionLog, recorded, reportVars, witnessVars, economyVars,
                   managerVars, reputationVars, lookupVars, observeVars>>

EncounterLogNext ==
    \/ \E uuid \in Uuids, seen \in EncounterDates, system \in EncounterSystems :
          EncounterGetOrCreate(uuid, seen, system)
    \/ \E max \in EncounterSizes : EncounterLogSetMaxRecords(max)

SpecEncounterLog == EncounterLogInit /\ [][EncounterLogNext]_vars

(***************************************************************************)
(* Properties of WitnessReport and of the report queue.                    *)
(***************************************************************************)
\* A report that was queued and has not been removed by Clear().
Tracked(i) == hist[i].queued /\ ~hist[i].cleared

\* C1: a WitnessReport constructed with countdown N >= 1 matures on exactly
\* the Nth call to Step(): every call before the Nth returns false, the Nth
\* returns true.
C1_StepMaturesOnNthCall ==
    (frames0 >= 1 /\ stepCalls >= 1 /\ stepCalls <= frames0)
        => (stepRet = (stepCalls = frames0))

\* A report with countdown 3 has been stepped three times and is ready.
C1_Witness ==
    frames0 = 3 /\ stepCalls = 3 /\ stepRet = TRUE

\* C2: a report built by the WitnessReport constructor (countdown N >= 1,
\* activeWitnesses empty, canBeSuppressed left at its default, true) stays
\* pending through the first N-1 StepReports() calls, which do not return it,
\* and is returned by the Nth call, after which it is no longer pending.
C2_ConstructedReportDelivered ==
    \A i \in ReportIds :
        (Tracked(i) /\ hist[i].suppress0 /\ hist[i].witnesses0 = <<>>
                    /\ hist[i].frames0 >= 1)
            => IF hist[i].age < hist[i].frames0
               THEN IsPending(i) /\ hist[i].returned = 0
               ELSE ~IsPending(i) /\ hist[i].returned = 1
                    /\ hist[i].returnedAge = hist[i].frames0

C4_NonSuppressibleOnTime ==
    \A i \in ReportIds :
        (Tracked(i) /\ ~hist[i].suppress0 /\ hist[i].frames0 >= 1)
            => /\ hist[i].dropped = 0
               /\ IF hist[i].age < hist[i].frames0
                  THEN IsPending(i) /\ hist[i].returned = 0
                  ELSE ~IsPending(i) /\ hist[i].returned = 1
                       /\ hist[i].returnedAge = hist[i].frames0

\* A non-suppressible report with countdown >= 2 whose listed witnesses were
\* all reported destroyed while it was pending has been returned.
C4_Witness ==
    \E i \in ReportIds :
        /\ Tracked(i) /\ ~hist[i].suppress0 /\ hist[i].frames0 >= 2
        /\ hist[i].witnesses0 # <<>>
        /\ ShipsOf(hist[i].witnesses0) \subseteq hist[i].notified
        /\ hist[i].returned = 1

\* C5: absent Clear(), a queued report with countdown N cannot stay in the
\* queue through max(1, N) StepReports() calls, and it leaves the queue in
\* exactly one of two ways: returned once, by the call on which its countdown
\* reached zero, or dropped once, being suppressible with every listed witness
\* eliminated.  It is never returned twice, never returned after being
\* dropped, and never leaves in any other way.
C5_ReportLeavesOnceByMaturityOrSuppression ==
    \A i \in ReportIds :
        Tracked(i) =>
            /\ hist[i].returned + hist[i].dropped <= 1
            /\ IsPending(i) =>
                  /\ hist[i].returned = 0 /\ hist[i].dropped = 0
                  /\ hist[i].age < Max(1, hist[i].frames0)
            /\ ~IsPending(i) => hist[i].returned + hist[i].dropped = 1
            /\ i \in IdsOf(ready) => hist[i].returned = 1
            /\ hist[i].returned = 1 =>
                  hist[i].returnedAge = Max(1, hist[i].frames0)
            /\ hist[i].dropped = 1 =>
                  /\ hist[i].suppress0
                  /\ ShipsOf(hist[i].witnesses0) \subseteq hist[i].notified
                  /\ hist[i].droppedAge <= Max(1, hist[i].frames0)

\* A suppressible report with two listed witnesses has been dropped by the
\* second sweep after it was queued.
C5_Witness ==
    \E i \in ReportIds :
        /\ Tracked(i) /\ ~IsPending(i)
        /\ Len(hist[i].witnesses0) = 2
        /\ hist[i].dropped = 1 /\ hist[i].droppedAge = 2

(***************************************************************************)
(* Properties of SystemEconomy.                                            *)
(***************************************************************************)
\* C6: in every state reachable through RecordEvent, StepDaily, SetState and
\* Clear, for every loadable configuration, stateStrength = 0 implies
\* state = STABLE.
C6_ZeroStrengthIsStable ==
    economy.stateStrength = 0 => economy.state = "STABLE"

\* C7: after any sequence of RecordEvent, StepDaily, SetState and Clear,
\* 0 <= stateStrength <= 100.
C7_StrengthInRange ==
    economy.stateStrength >= 0 /\ economy.stateStrength <= 100

\* C8: whatever events were recorded, each of the four rolling counters is
\* >= 0 after the decay step of every StepDaily.
C8_CountersNonNegativeAfterDecay ==
    [][date' = date + 1 =>
          LET d == DecayCounters(economy)
          IN  /\ d.merchantLosses >= 0 /\ d.pirateLosses >= 0
              /\ d.tradeVolume >= 0 /\ d.smugglingLevel >= 0]_vars

\* The daily tick that has just run ended a day that began STABLE with zeroed
\* counters and on which exactly n events, all MERCHANT_DESTROYED of
\* magnitude 1, were recorded; it had no background NPC activity.
UnitMerchantDay(n) ==
    /\ tick.ran /\ ~tick.system
    /\ tick.day.fresh /\ tick.day.unitMerchantOnly /\ tick.day.events = n

\* C9 as stated: a STABLE location with the default configuration and zeroed
\* counters that receives 10 MERCHANT_DESTROYED events of magnitude 1 on one
\* day is in BUST with strength 100 once that day's StepDaily has run.
C9_TenLossesBust ==
    UnitMerchantDay(10) =>
        economy.state = "BUST" /\ economy.stateStrength = 100

\* C9 as amended: after 10 such events the location is still STABLE with
\* strength 0 once that day's StepDaily has run, the counter having been
\* decayed to 8.5 before the comparison with the threshold 10; after 12 such
\* events (decayed to 10.2) it is in BUST with strength min(100, 102) = 100.
C9_TenLossesStable ==
    /\ UnitMerchantDay(10) =>
          /\ economy.state = "STABLE" /\ economy.stateStrength = 0
          /\ 2 * economy.merchantLosses = 17 * Scale
    /\ UnitMerchantDay(12) =>
          /\ economy.state = "BUST" /\ economy.stateStrength = 100
          /\ 5 * economy.merchantLosses = 51 * Scale

\* The tick after a day of ten unit merchant losses has run.
C9_Witness ==
    UnitMerchantDay(10) /\ economy.config = DefaultConfig
        /\ economy.recentEventsSize = 10

\* C10: after any StepDaily in which the decayed smuggling counter is at or
\* above smugglingThreshold, the state is LOCKDOWN, whatever the state before
\* the tick, the other counters and the (loadable) threshold.
C10_SmugglingForcesLockdown ==
    (tick.ran /\ AtLeast(economy.smugglingLevel, economy.config.smugglingThreshold))
        => economy.state = "LOCKDOWN"

\* C11: whenever ApplyRecovery brings stateStrength to 0 in a non-STABLE
\* state, the same StepDaily ends with state STABLE and an empty affected
\* commodity, and reports a state change.
C11_RecoveryToZeroIsStable ==
    (tick.ran /\ tick.applied /\ economy.stateStrength <= 0)
        => /\ economy.state = "STABLE"
           /\ economy.affectedCommodity = ""
           /\ tick.ret
           /\ economy.significantChange

\* A tick has recovered a SURPLUS of full strength, which named a commodity,
\* to STABLE.
C11_Witness ==
    /\ tick.ran /\ tick.applied /\ tick.ret
    /\ tick.preState = "SURPLUS" /\ tick.preStrength = 100
    /\ economy.stateStrength = 0 /\ economy.state = "STABLE"

\* The thresholds met by the counters as a daily tick leaves them: the
\* counters are not written after the comparisons, so these are the values
\* that were compared.
MerchantMet == AtLeast(economy.merchantLosses, economy.config.merchantLossThreshold)
BoomMet ==
    \/ AtLeast(economy.pirateLosses, economy.config.pirateLossThreshold)
    \/ AtLeast(economy.tradeVolume, economy.config.tradeVolumeThreshold)
SmugglingMet == AtLeast(economy.smugglingLevel, economy.config.smugglingThreshold)

\* C12: within one StepDaily the counters are decayed before any threshold
\* comparison, and the comparisons are made in the order merchant loss
\* (BUST), hostile loss or trade volume (BOOM), smuggling (LOCKDOWN).  So a
\* tick that starts STABLE ends in the state chosen by the decayed counters
\* in that order, the later LOCKDOWN test overriding; and a tick that enters
\* a state it was not in has the decayed counter at or above that state's
\* threshold.
C12_DecayBeforeOrderedThresholds ==
    tick.ran =>
        /\ tick.preState = "STABLE" =>
              /\ economy.state = IF SmugglingMet THEN "LOCKDOWN"
                                 ELSE IF MerchantMet THEN "BUST"
                                 ELSE IF BoomMet THEN "BOOM"
                                 ELSE "STABLE"
              /\ tick.ret = (economy.state # "STABLE")
              /\ ~tick.applied
        /\ (economy.state = "LOCKDOWN" /\ tick.preState # "LOCKDOWN") => SmugglingMet
        /\ (economy.state = "BUST" /\ tick.preState # "BUST") =>
              (MerchantMet /\ ~SmugglingMet)
        /\ (economy.state = "BOOM" /\ tick.preState # "BOOM") =>
              (BoomMet /\ ~SmugglingMet)

\* A tick that started STABLE met both the merchant-loss and the smuggling
\* threshold and ended in LOCKDOWN.
C12_Witness ==
    /\ tick.ran /\ tick.preState = "STABLE"
    /\ MerchantMet /\ SmugglingMet
    /\ economy.state = "LOCKDOWN"

\* C16: starting from full strength 100 in a non-STABLE state S with no
\* threshold met again, the location returns to STABLE after exactly
\* recoveryDays(S) daily ticks: it is not STABLE before that tick, and the
\* tick that makes it STABLE is tick number recoveryDays(S).
C16_RecoversInRecoveryDays ==
    calls = 1 =>
        /\ economy.state # "STABLE" => date < RecoveryDays(economy)
        /\ (tick.ran /\ tick.ret /\ economy.state = "STABLE") =>
              date = RecoveryDays([economy EXCEPT !.state = tick.preState])

(***************************************************************************)
(* Properties of the cascade.                                              *)
(***************************************************************************)
\* The systems linked from s.
LinkedFrom(s) == {links[s][i] : i \in DOMAIN links[s]}

\* The systems within k hops of a.
RECURSIVE Ball(_, _)
Ball(a, k) ==
    IF k = 0 THEN {a}
    ELSE LET b == Ball(a, k - 1)
         IN  b \cup UNION {LinkedFrom(s) : s \in b}

\* The shortest hop distance from a to s; -1 when s cannot be reached.
HopDistance(a, s) ==
    LET n == Cardinality(Systems)
    IN  IF s \in Ball(a, n)
        THEN CHOOSE k \in 0..n :
                 /\ s \in Ball(a, k)
                 /\ \A j \in 0..n : s \in Ball(a, j) => k <= j
        ELSE -1

\* The last EconomicManager::RecordEvent call started a cascade, which has
\* returned.
CascadeDone == cascade.started = 1 /\ ~cascade.active

\* C13: a cascade from A with radius R records downstream events only at
\* systems whose shortest hop distance d from A satisfies 1 <= d <= R; A
\* itself receives none, and every other system at most one.
C13_CascadeWithinRadius ==
    cascade.origin # NullSystem =>
        \A s \in Systems :
            received[s] # <<>> =>
                /\ s # cascade.origin
                /\ HopDistance(cascade.origin, s) >= 1
                /\ HopDistance(cascade.origin, s) <= cascade.radius
                /\ Len(received[s]) = 1

\* A cascade of radius 1 from A, which links to itself and lies on a cycle,
\* has returned: B and C received an event, D (two hops away) none.
C13_Witness ==
    /\ CascadeDone /\ links = LoopMap
    /\ cascade.origin = "A" /\ cascade.radius = 1 /\ cascade.magnitude = 8
    /\ received["B"] # <<>> /\ received["C"] # <<>>
    /\ received["D"] = <<>>

\* C14: once a cascade of magnitude m from A has returned, a system at
\* shortest hop distance d, 1 <= d <= R, has received one event of the
\* cascade's type with magnitude floor(m / 2^d) if that is positive, and no
\* event if it is 0; and no system was pushed on the work queue with a
\* propagated magnitude of 0.
C14_CascadeMagnitudeHalvesPerHop ==
    /\ CascadeDone =>
          \A s \in Systems :
              LET d == HopDistance(cascade.origin, s)
                  pm == cascade.magnitude \div (2 ^ d)
              IN  (d >= 1 /\ d <= cascade.radius) =>
                      received[s] = IF pm > 0 THEN <<<<cascade.type, pm>>>>
                                    ELSE <<>>
    /\ \A s \in Systems :
          (enqueued[s] > 0 /\ s # cascade.origin) =>
              (received[s] # <<>> /\ received[s][1][2] > 0)

\* A cascade of magnitude 3 and radius >= 2 along the chain from A has
\* returned: B received 1, C (3 / 4 = 0) received nothing and was not pushed.
C14_Witness ==
    /\ CascadeDone /\ links = ChainMap
    /\ cascade.origin = "A" /\ cascade.radius >= 2 /\ cascade.magnitude = 3
    /\ received["B"] = <<<<"MERCHANT_DESTROYED", 1>>>>
    /\ received["C"] = <<>> /\ enqueued["C"] = 0

\* C15: EconomicManager::RecordEvent terminates on every map, cycles and
\* self-links included: no system is pushed on the work queue more than once,
\* one call starts at most one cascade, and a cascade that is running comes
\* to its end.
C15_CascadeTerminates ==
    /\ [](\A s \in Systems : enqueued[s] <= 1)
    /\ [](cascade.started <= 1)
    /\ (cascade.active ~> ~cascade.active)

\* A cascade of radius >= 2 from A over the map with the self-link and the
\* cycle has returned, every system having been pushed once.
C15_Witness ==
    /\ CascadeDone /\ links = LoopMap
    /\ cascade.origin = "A" /\ cascade.radius >= 2
    /\ \A s \in Systems : enqueued[s] = 1

(***************************************************************************)
(* Properties of ReputationManager.                                        *)
(***************************************************************************)
\* C17: GetThreshold is monotonic non-decreasing in the standing, in the
\* order WAR < HOSTILE < UNFRIENDLY < NEUTRAL < FRIENDLY < ALLIED < HONORED,
\* and repeated calls with the same value return the same band: of any two
\* calls, the one with the smaller or equal argument returned the smaller or
\* equal band.
C17_GetThresholdMonotonic ==
    \A i, j \in DOMAIN thresholdCalls :
        thresholdCalls[i].reputation <= thresholdCalls[j].reputation
            => ThresholdValue(thresholdCalls[i].threshold)
                  <= ThresholdValue(thresholdCalls[j].threshold)

\* GetThreshold was called with 24.99 and then with 25: NEUTRAL, then
\* FRIENDLY.
C17_Witness ==
    /\ Len(thresholdCalls) = 2
    /\ thresholdCalls[1] = [reputation |-> 2499, threshold |-> "NEUTRAL"]
    /\ thresholdCalls[2] = [reputation |-> 2500, threshold |-> "FRIENDLY"]

\* The band the breakpoints assign to v when the bands above and below
\* NEUTRAL are as stated and v = -25 goes to the band given.
BandWithMinus25In(v, band) ==
    IF v <= -100 * RepScale THEN "WAR"
    ELSE IF v <= -50 * RepScale THEN "HOSTILE"
    ELSE IF v < -25 * RepScale THEN "UNFRIENDLY"
    ELSE IF v = -25 * RepScale THEN band
    ELSE IF v < 25 * RepScale THEN "NEUTRAL"
    ELSE IF v < 50 * RepScale THEN "FRIENDLY"
    ELSE IF v < 100 * RepScale THEN "ALLIED"
    ELSE "HONORED"

\* C18 as stated: the NEUTRAL band is exactly [-25, 25), so -25 itself
\* classifies as NEUTRAL; v <= -100 is WAR, -100 < v <= -50 HOSTILE,
\* 25 <= v < 50 FRIENDLY, 50 <= v < 100 ALLIED and v >= 100 HONORED.
C18_NeutralIncludesMinus25 ==
    \A i \in DOMAIN thresholdCalls :
        thresholdCalls[i].threshold
            = BandWithMinus25In(thresholdCalls[i].reputation, "NEUTRAL")

\* C18 as amended: the NEUTRAL band is exactly (-25, 25): every v with
\* -25 < v < 25 classifies as NEUTRAL and v = -25 itself as UNFRIENDLY
\* (-50 < v <= -25); v <= -100 is WAR, -100 < v <= -50 HOSTILE,
\* 25 <= v < 50 FRIENDLY, 50 <= v < 100 ALLIED and v >= 100 HONORED.
C18_NeutralExcludesMinus25 ==
    \A i \in DOMAIN thresholdCalls :
        thresholdCalls[i].threshold
            = BandWithMinus25In(thresholdCalls[i].reputation, "UNFRIENDLY")

\* GetThreshold was called with -25 and with -24.99.
C18_Witness ==
    /\ Len(thresholdCalls) = 2
    /\ thresholdCalls[1].reputation = -2500
    /\ thresholdCalls[1].threshold = "UNFRIENDLY"
    /\ thresholdCalls[2].reputation = -2499
    /\ thresholdCalls[2].threshold = "NEUTRAL"

\* C19: for every government and configuration, one daily decay step
\* applied to a standing strictly above the baseline yields a value >= the
\* baseline, and applied to a standing strictly below it yields a value <=
\* the baseline.
C19_DecayDoesNotOvershoot ==
    repTick.ran =>
        \A g \in repTick.known :
            LET baseline == GetConfig(configs, g).neutralPoint
            IN  /\ repTick.old[g] > baseline => repTick.decayed[g] >= baseline
                /\ repTick.old[g] < baseline => repTick.decayed[g] <= baseline

\* A tick has decayed the standing of g1, which was above the baseline 10,
\* with an effective rate above 1: the result is the baseline.
C19_Witness ==
    /\ repTick.ran /\ "g1" \in repTick.known
    /\ "g1" \in DOMAIN configs /\ configs["g1"] = SteepReputationConfig
    /\ repTick.old["g1"] > SteepReputationConfig.neutralPoint
    /\ repTick.decayed["g1"] = SteepReputationConfig.neutralPoint

\* The crossings the last StepDaily returned for g.
CrossingsOf(g) == {i \in DOMAIN crossings : crossings[i].government = g}

\* C20: for each known government, StepDaily returns a ThresholdCrossing
\* for it if and only if GetThreshold of its standing before the tick
\* differs from GetThreshold of its standing after the tick; it returns at
\* most one, whose from and to bands are those two classifications; and the
\* standing after the tick is the decayed value.  It returns none for a
\* government that has no recorded state.
C20_CrossingIffBandChanged ==
    repTick.ran =>
        \A g \in Governments :
            IF g \in repTick.known
            THEN /\ (CrossingsOf(g) # {})
                       <=> (GetThreshold(repTick.old[g]) # GetThreshold(standing[g]))
                 /\ Cardinality(CrossingsOf(g)) <= 1
                 /\ \A i \in CrossingsOf(g) :
                       /\ crossings[i].fromThreshold = GetThreshold(repTick.old[g])
                       /\ crossings[i].toThreshold = GetThreshold(standing[g])
                 /\ standing[g] = repTick.decayed[g]
            ELSE CrossingsOf(g) = {} /\ standing[g] = repTick.old[g]

\* A tick has decayed the standing of g2 from 25.05 to below 25 and returned
\* the crossing from FRIENDLY to NEUTRAL.
C20_Witness ==
    /\ repTick.ran /\ "g2" \in repTick.known
    /\ repTick.old["g2"] = SecondStanding
    /\ standing["g2"] < 25 * RepScale
    /\ \E i \in CrossingsOf("g2") :
          /\ crossings[i].fromThreshold = "FRIENDLY"
          /\ crossings[i].toThreshold = "NEUTRAL"

\* C21: a daily tick clears the atrocity flag of a government exactly when
\* its configuration permits forgiveness and currentDate - atrocityDate >=
\* atrocityForgivenessDays, so the flag falls on the first such tick; under a
\* configuration that does not permit forgiveness, and across RecordChange,
\* RecordGoodDeed and RecordAtrocity, a flag that is set stays set.
C21_ForgivenOnFirstTickAfterWindow ==
    \A g \in DOMAIN repCall.before \cap Governments :
        repCall.before[g].hasCommittedAtrocity =>
            LET config == GetConfig(configs, g)
                elapsed == repDate - repCall.before[g].atrocityDate
            IN  /\ repCall.op = "StepDaily" =>
                      /\ g \in DOMAIN states
                      /\ states[g].hasCommittedAtrocity
                            = ~(/\ config.forgivesAtrocities
                                /\ elapsed >= config.atrocityForgivenessDays)
                /\ repCall.op \in {"RecordChange", "RecordGoodDeed",
                                   "RecordAtrocity"} =>
                      g \in DOMAIN states /\ states[g].hasCommittedAtrocity

\* The atrocity of day 1 against g1, which forgives after 2 days, was kept by
\* the tick of day 2 and has been cleared by the tick of day 3.
C21_Witness ==
    /\ repCall.op = "StepDaily" /\ repDate = 3
    /\ "g1" \in DOMAIN configs /\ configs["g1"] = SteepReputationConfig
    /\ "g1" \in DOMAIN repCall.before
    /\ repCall.before["g1"].hasCommittedAtrocity
    /\ repCall.before["g1"].atrocityDate = 1
    /\ ~states["g1"].hasCommittedAtrocity

\* C22: for every handle f RecordAtrocity was called with, the null handle
\* included, and every configuration, HasUnforgivenAtrocity(f) returns true
\* for as long as StepDaily has not forgiven the atrocity.
C22_RecordedAtrocityIsUnforgiven ==
    \A f \in atrocityRecorded : HasUnforgivenAtrocity(states, configs, f)

\* C23: RecordGoodDeed(f, d), for every handle f, the null handle included,
\* leaves a state for f (GetState(f) is non-null) whose goodDeedCount is one
\* more than before, whose lastInteraction is d and whose
\* daysSincePositiveInteraction is 0.
C23_GoodDeedCreatesState ==
    repCall.op = "RecordGoodDeed" =>
        LET f == repCall.gov
            st == GetState(states, f)
        IN  /\ st # NullState
            /\ st.goodDeedCount
                  = GetOrCreateState(repCall.before, f).goodDeedCount + 1
            /\ st.lastInteraction = repDate
            /\ st.daysSincePositiveInteraction = 0

\* C24: RecordChange, RecordGoodDeed and RecordAtrocity leave the standing
\* of every government as it was before the call (as do Clear and Save), and
\* StepDaily changes the standing only of governments that have recorded
\* state.
C24_OnlyStepDailyWritesStanding ==
    /\ repCall.op \in {"RecordChange", "RecordGoodDeed", "RecordAtrocity",
                       "Clear", "SaveLoad"}
          => standing = repCall.standingBefore
    /\ repCall.op = "StepDaily"
          => \A g \in Governments :
                standing[g] # repCall.standingBefore[g]
                    => g \in DOMAIN repCall.before

\* RecordChange has appended an event to the list of g1, whose standing is
\* what it was.
C24_Witness ==
    /\ repCall.op = "RecordChange" /\ repCall.gov = "g1"
    /\ Len(GetRecentEvents(states, "g1"))
          = Len(GetRecentEvents(repCall.before, "g1")) + 1
    /\ standing["g1"] = repCall.standingBefore["g1"]

\* C25 as stated: in every reachable state the list of recent events of
\* every government holds at most 50 entries, between daily ticks as well as
\* after them.
C25_AtMostFiftyEventsAlways ==
    \A g \in DOMAIN states :
        Len(states[g].recentEvents) <= REPUTATION_MAX_EVENT_HISTORY

\* The last n entries of a list.
Newest(events, n) ==
    IF Len(events) > n THEN SubSeq(events, Len(events) - n + 1, Len(events))
    ELSE events

\* C25 as amended: right after a daily tick the list of recent events of
\* every government holds at most 50 entries, the newest 50 of the list
\* before the tick (the oldest are evicted first); RecordChange appends its
\* event without evicting, so between daily ticks a list can hold more than
\* 50 entries.
C25_AtMostFiftyEventsAfterTick ==
    /\ repCall.op = "StepDaily" =>
          \A g \in DOMAIN states :
              /\ Len(states[g].recentEvents) <= REPUTATION_MAX_EVENT_HISTORY
              /\ states[g].recentEvents
                    = Newest(repCall.before[g].recentEvents,
                             REPUTATION_MAX_EVENT_HISTORY)
    /\ repCall.op = "RecordChange" /\ repCall.gov # NullGovernment =>
          LET events == GetRecentEvents(states, repCall.gov)
              before == GetRecentEvents(repCall.before, repCall.gov)
          IN  /\ Len(events) = Len(before) + 1
              /\ SubSeq(events, 1, Len(before)) = before

\* A tick found 51 events in the list of g1 and has left 50, the oldest
\* (change -1) gone.
C25_Witness ==
    /\ repCall.op = "StepDaily"
    /\ "g1" \in DOMAIN repCall.before
    /\ Len(repCall.before["g1"].recentEvents) = 51
    /\ repCall.before["g1"].recentEvents[1].change = -1
    /\ Len(states["g1"].recentEvents) = 50
    /\ states["g1"].recentEvents[1].change = -2

\* C27: saving the reputation manager and loading what was saved into an
\* empty manager restores the reputation state of every government: the same
\* set of known governments and, for each, the same atrocity flag and date,
\* good-deed count, peak, trough, days-since-positive counter,
\* last-interaction date and event list.
C27_SaveLoadRestoresStates ==
    repCall.op = "SaveLoad" =>
        /\ DOMAIN repCall.loaded = DOMAIN states
        /\ \A g \in DOMAIN states : repCall.loaded[g] = states[g]

(***************************************************************************)
(* Properties of the registries of EconomicManager.                        *)
(***************************************************************************)
\* C30: a SystemEconomy the manager creates lazily, after SetDefaultConfig(c)
\* or after a "default config" node was loaded, has c as its configuration
\* (the thresholds and recovery days its daily step reads), and a cascade
\* that starts at such a system runs with c's cascade radius.
C30_LazyEconomyUsesDefaultConfig ==
    /\ \A s \in DOMAIN systemEconomies \ LoadedSystems :
          systemEconomies[s].config = defaultConfig
    /\ cascade.started = 1 /\ cascade.origin \notin LoadedSystems
          => cascade.radius = defaultConfig.cascadeRadius

\* Whether the handle of the last lookup had recorded state in the registry
\* the function reads.
LookupKnown ==
    CASE lookup.op \in {"GetState", "HasUnforgivenAtrocity", "GetRecentEvents"}
           -> lookup.key \in DOMAIN lookup.statesBefore
      [] lookup.op \in {"GetSystemEconomy", "GetSystemEconomyConst"}
           -> lookup.key \in DOMAIN lookup.economiesBefore
      [] lookup.op = "HasBlackMarket"
           -> \/ lookup.key \in DOMAIN lookup.economiesBefore
              \/ lookup.key \in blackMarketSystems
      [] OTHER -> TRUE

\* Whether the last lookup returned null, false or an empty list.
LookupNoData ==
    CASE lookup.op = "GetState" -> lookup.result = NullState
      [] lookup.op \in {"HasUnforgivenAtrocity", "HasBlackMarket"}
           -> lookup.result = FALSE
      [] lookup.op = "GetRecentEvents" -> lookup.result = <<>>
      [] lookup.op \in {"GetSystemEconomy", "GetSystemEconomyConst"}
           -> lookup.result = NullEconomy
      [] OTHER -> TRUE

\* Whether the last lookup left both registries as they were.
LookupLeftRegistries ==
    /\ systemEconomies = lookup.economiesBefore
    /\ states = lookup.statesBefore

\* C26 as stated: a lookup (GetState, HasUnforgivenAtrocity, GetRecentEvents,
\* either overload of GetSystemEconomy, HasBlackMarket) for a government or
\* system without recorded state returns null, false or empty and creates
\* no entry in either registry.
C26_LookupCreatesNothing ==
    ~LookupKnown => LookupNoData /\ LookupLeftRegistries

\* C26 as amended: GetState, HasUnforgivenAtrocity, GetRecentEvents, the
\* const overload of GetSystemEconomy and HasBlackMarket, for a government or
\* system without recorded state, return null, false or empty and create no
\* entry; the non-const overload of GetSystemEconomy inserts a
\* default-constructed economy for the system and returns it.
C26_OnlyMutableGetCreates ==
    ~LookupKnown =>
        IF lookup.op = "GetSystemEconomy"
        THEN /\ DOMAIN systemEconomies
                   = DOMAIN lookup.economiesBefore \cup {lookup.key}
             /\ systemEconomies[lookup.key] = NewEconomy(DefaultConfig)
             /\ lookup.result = NewEconomy(DefaultConfig)
             /\ \A s \in DOMAIN lookup.economiesBefore :
                   systemEconomies[s] = lookup.economiesBefore[s]
             /\ states = lookup.statesBefore
        ELSE LookupNoData /\ LookupLeftRegistries

\* The non-const GetSystemEconomy was called for system C, which had no
\* economy and now has one.
C26_Witness ==
    /\ lookup.op = "GetSystemEconomy" /\ lookup.key = "C"
    /\ "C" \notin DOMAIN lookup.economiesBefore
    /\ "C" \in DOMAIN systemEconomies

(***************************************************************************)
(* Properties of WitnessSystem::CheckWitnesses.                            *)
(***************************************************************************)
\* Whether the i-th ship of the list is among the witnesses returned.
IsWitness(i) ==
    \E w \in DOMAIN witnessResult.witnesses :
        witnessResult.witnesses[w].ship = i

\* Whether the i-th ship passes the exclusion tests (it is neither the
\* perpetrator nor the victim, neither destroyed nor disabled) and the
\* concealment tests.
PassesExclusionAndConcealment(i) ==
    /\ nearbyShips[i].status = "active"
    /\ nearbyShips[i].cloaking < OBSERVER_CLOAK_THRESHOLD
    /\ ~(/\ scene.perpetrator.present
         /\ scene.perpetrator.cloaking >= CLOAK_WITNESS_THRESHOLD)

\* C28: in CheckWitnesses called with its default range argument, an
\* observer that passes the exclusion and concealment tests is a witness if
\* and only if its distance to the event is <= its effective range: 5000 for
\* an ordinary observer, 7500 for one that carries scanning equipment.
C28_WitnessIffWithinEffectiveRange ==
    witnessResult.called /\ scene.customRange = DEFAULT_WITNESS_RANGE =>
        \A i \in DOMAIN nearbyShips :
            PassesExclusionAndConcealment(i) =>
                (IsWitness(i) <=>
                    nearbyShips[i].distance
                       <= (IF HasEnhancedSensors(nearbyShips[i])
                           THEN 7500 ELSE 5000))

\* Whether the w-th witness returned belongs to a government that is allied
\* to (not an enemy of) the government of the victim.
AlliedToVictim(w) ==
    /\ witnessResult.witnesses[w].government.present
    /\ scene.victim.present /\ scene.victim.gov.present
    /\ ~witnessResult.witnesses[w].government.enemyOfVictim

\* C29 as stated: WouldReport returns true for every witness whose
\* government is allied to the victim's, whatever the relation of the
\* witness's government to the player.
C29_AlliesOfVictimAlwaysReport ==
    \A w \in DOMAIN witnessResult.witnesses :
        AlliedToVictim(w) => witnessResult.witnesses[w].canReport

\* C29 as amended: WouldReport returns true for every witness whose
\* government is allied to the victim's and is not an enemy of the player;
\* for a witness whose government is an enemy of the player it returns
\* false, allied to the victim or not.
C29_AlliesReportUnlessEnemyOfPlayer ==
    \A w \in DOMAIN witnessResult.witnesses :
        LET info == witnessResult.witnesses[w]
        IN  /\ AlliedToVictim(w) => (info.canReport <=> ~info.government.enemy)
            /\ info.government.present /\ info.government.enemy
                  => ~info.canReport

\* CheckWitnesses has returned two witnesses allied to the victim: one of a
\* government that is not an enemy of the player, which reports, and one of
\* a government that is, which does not.
C29_Witness ==
    /\ witnessResult.called
    /\ \E w \in DOMAIN witnessResult.witnesses :
          /\ AlliedToVictim(w)
          /\ ~witnessResult.witnesses[w].government.enemy
          /\ witnessResult.witnesses[w].canReport
    /\ \E w \in DOMAIN witnessResult.witnesses :
          /\ AlliedToVictim(w)
          /\ witnessResult.witnesses[w].government.enemy
          /\ ~witnessResult.witnesses[w].canReport

(***************************************************************************)
(* Properties of ActionLog and EncounterLog.                               *)
(***************************************************************************)
\* The last n entries of a sequence.
LastOf(seq, n) == SubSeq(seq, Len(seq) - n + 1, Len(seq))

\* C31: after any sequence of Record and SetMaxRecords calls, Size() <=
\* MaxRecords() and the records retained are the most recently recorded
\* ones, in the order they were recorded.
C31_RetainsMostRecentWithinMax ==
    /\ LogSize(actionLog) <= LogMaxRecords(actionLog)
    /\ LogSize(actionLog) <= Len(recorded)
    /\ actionLog.records = LastOf(recorded, LogSize(actionLog))

\* Four records were recorded, the maximum was lowered to two and raised to
\* three again: the log holds the last two records.
C31_Witness ==
    /\ Len(recorded) = 4
    /\ LogMaxRecords(actionLog) = 3
    /\ LogSize(actionLog) = 2
    /\ actionLog.records = <<recorded[3], recorded[4]>>

\* C32: after GetOrCreate(uuid, date, system) returns, HasRecord(uuid) is
\* true and the record returned is the one stored in the log under uuid,
\* for every log (one at its maximum size included) and every date (one
\* not later than those of all the records in the log included).
C32_GetOrCreateReturnsStoredRecord ==
    encounterCall.op = "GetOrCreate" =>
        /\ HasRecord(encounterLog, encounterCall.uuid)
        /\ encounterCall.valid
        /\ encounterCall.returned = encounterLog.records[encounterCall.uuid]

(***************************************************************************)
(* Further properties of SystemEconomy.                                    *)
(***************************************************************************)
\* Whether a threshold test of the last daily tick fired, given the state
\* the tick started in, and the strength that test computed from its
\* counter (the last test that fired, as each overwrites the one before).
TriggerFired ==
    \/ tick.preState \in {"STABLE", "BUST"} /\ MerchantMet
    \/ tick.preState \in {"STABLE", "BOOM"} /\ BoomMet
    \/ SmugglingMet

TriggeredStrength ==
    IF SmugglingMet
    THEN Min(100, TruncDiv(economy.smugglingLevel, Scale \div 2))
    ELSE IF tick.preState \in {"STABLE", "BUST"} /\ MerchantMet
    THEN Min(100, TruncDiv(economy.merchantLosses, Scale \div 10))
    ELSE IF AtLeast(economy.pirateLosses, economy.config.pirateLossThreshold)
    THEN Min(100, TruncDiv(economy.pirateLosses, Scale \div 5))
    ELSE Min(100, TruncDiv(economy.tradeVolume, Scale * 50))

\* C33: in a daily tick in which a threshold trigger fires, whether it
\* enters a new state or re-triggers the state the location is in, the
\* recovery decrement is not applied: stateStrength at the end of the tick
\* is the strength computed from the triggering counter.
C33_NoRecoveryInTriggeringTick ==
    (tick.ran /\ TriggerFired) => economy.stateStrength = TriggeredStrength

\* Whether this step is a call of SetState.
IsSetStateStep ==
    /\ calls' = calls + 1
    /\ \E newState \in EconomicStateType, strength \in Strengths :
          economy' = SetState(economy, newState, CommodityFor(newState), strength)

\* C36: stateChangeDate is the date of the most recent operation that
\* changed the state value: a daily tick or a SetState call that changes
\* the state sets it to the current date, and one that leaves the state as
\* it was leaves stateChangeDate as it was.
C36_StateChangeDateTracksState ==
    [][(tick'.ran \/ IsSetStateStep) =>
          IF economy'.state # economy.state
          THEN economy'.stateChangeDate = date'
          ELSE economy'.stateChangeDate = economy.stateChangeDate]_vars

C39_BoomAndBustNeverFollowEachOther ==
    tick.ran =>
        /\ tick.preState = "BOOM" =>
              economy.state \in {"BOOM", "LOCKDOWN", "STABLE"}
        /\ tick.preState = "BUST" =>
              economy.state \in {"BUST", "LOCKDOWN", "STABLE"}
        /\ (tick.preState = "STABLE" /\ MerchantMet /\ BoomMet /\ ~SmugglingMet)
              => economy.state = "BUST"

\* A tick that started in BOOM with the merchant-loss threshold met has
\* ended in BOOM.
C39_Witness ==
    /\ tick.ran /\ tick.preState = "BOOM" /\ MerchantMet /\ ~SmugglingMet
    /\ economy.state = "BOOM"

(***************************************************************************)
(* Properties of EconomicManager::RecordEvent.                             *)
(***************************************************************************)
\* The categories that cascade, as C34 lists them.
Qualifies(type, magnitude) ==
    \/ type \in {"MERCHANT_DESTROYED", "CONVOY_ATTACKED", "BLOCKADE_ACTIVE",
                 "WAR_STARTED", "WAR_ENDED"}
    \/ type \in {"LARGE_PURCHASE", "LARGE_SALE"} /\ magnitude >= 1000
    \/ type = "SMUGGLING_DETECTED" /\ magnitude >= 100

\* C34: EconomicManager::RecordEvent on a non-null system records the event
\* once, at full magnitude, at that system (the cascade that may follow
\* records nothing more there), and starts the cascade, by calling
\* PropagateEffects, exactly when its category qualifies; with a null system
\* it changes nothing.  (PropagateEffects itself visits no system when the
\* cascade radius or the magnitude is <= 0.)
C34_RecordsOnceAndCascadesByCategory ==
    LET call == cascade.last
    IN  call.made =>
            IF call.system = NullSystem
            THEN /\ systemEconomies = call.before
                 /\ ~call.propagated
            ELSE /\ call.system \in DOMAIN systemEconomies
                 /\ systemEconomies[call.system] =
                        RecordEvent(GetSystemEconomy(call.before, call.system),
                                    call.type, call.magnitude)
                 /\ call.propagated = Qualifies(call.type, call.magnitude)
                 /\ ~call.propagated =>
                        /\ ~cascade.active
                        /\ \A s \in DOMAIN systemEconomies \ {call.system} :
                              /\ s \in DOMAIN call.before
                              /\ systemEconomies[s] = call.before[s]

\* A smuggling event of magnitude 99 was recorded at a system and did not
\* cascade.
C34_Witness ==
    /\ cascade.last.made /\ cascade.last.system = "A"
    /\ cascade.last.type = "SMUGGLING_DETECTED" /\ cascade.last.magnitude = 99
    /\ ~cascade.last.propagated
    /\ systemEconomies["A"].smugglingLevel = 99 * Scale

(***************************************************************************)
(* Properties of the effective rates of ReputationManager.                 *)
(***************************************************************************)
\* The government GetEffectiveRecoveryRate was last called with has a state.
RateOfKnown ==
    lookup.op = "GetEffectiveRecoveryRate" /\ lookup.key \in DOMAIN states

\* base rate x tenths / 10 x (1 + hundredths / 100), in units of
\* 1 / RateScale, a negative product being returned as 0.
ScaledRate(base, tenths, hundredths) ==
    Max(0, RoundDiv(base * tenths * (100 + hundredths), 100))

\* The long-absence bonus for a number of days, in hundredths.
AbsenceBonus(days) == IF days > 30 THEN Min(50, days - 30) ELSE 0

\* C35 as stated: with an atrocity flag set the effective recovery rate is
\* base rate x 0.1 whatever daysSincePositiveInteraction is; the bonus
\* factor 1 + min(0.5, (days - 30) x 0.01) is applied only when no atrocity
\* flag is set and days > 30.
C35_AtrocityRateIgnoresAbsence ==
    RateOfKnown =>
        LET st == states[lookup.key]
            base == GetConfig(configs, lookup.key).negativeRecoveryRate
        IN  lookup.result =
                IF st.hasCommittedAtrocity
                THEN ScaledRate(base, 1, 0)
                ELSE ScaledRate(base, 10,
                                AbsenceBonus(st.daysSincePositiveInteraction))

\* C35 as amended: with an atrocity flag set the effective recovery rate is
\* base rate x 0.1 x the bonus factor, without the flag base rate x the
\* bonus factor, the factor being 1 + min(0.5, (days - 30) x 0.01) when
\* days > 30 and 1 otherwise.
C35_AtrocityRateKeepsAbsenceBonus ==
    RateOfKnown =>
        LET st == states[lookup.key]
            base == GetConfig(configs, lookup.key).negativeRecoveryRate
        IN  lookup.result =
                ScaledRate(base, IF st.hasCommittedAtrocity THEN 1 ELSE 10,
                           AbsenceBonus(st.daysSincePositiveInteraction))

\* The rate was asked for a government with an atrocity flag and 45 days
\* without a positive interaction, whose base rate is 0.3: it is 0.0345.
C35_Witness ==
    /\ RateOfKnown
    /\ states[lookup.key].hasCommittedAtrocity
    /\ states[lookup.key].daysSincePositiveInteraction = 45
    /\ GetConfig(configs, lookup.key) = SteepReputationConfig
    /\ lookup.result = 3450

\* C40: a daily decay step never moves a standing away from the baseline
\* b of its government: from s > b it yields s' with b <= s' <= s, from
\* s < b it yields s <= s' <= b, and from s = b it yields s, under every
\* configuration, negative rates, rates above 1 and memory strengths above 1
\* included.
C40_DecayNeverMovesAwayFromBaseline ==
    repTick.ran =>
        \A g \in repTick.known :
            LET b == GetConfig(configs, g).neutralPoint
                old == repTick.old[g]
                new == repTick.decayed[g]
            IN  /\ old > b => (b <= new /\ new <= old)
                /\ old < b => (old <= new /\ new <= b)
                /\ old = b => new = old

\* A tick has left the standing of g1 where it was, below the baseline -30,
\* under the configuration whose recovery rate is negative.
C40_Witness ==
    /\ repTick.ran /\ "g1" \in repTick.known
    /\ "g1" \in DOMAIN configs /\ configs["g1"] = OddReputationConfig
    /\ repTick.old["g1"] < OddReputationConfig.neutralPoint
    /\ repTick.decayed["g1"] = repTick.old["g1"]

(***************************************************************************)
(* The quiet scenario: STABLE as the state every location ends in.         *)
(***************************************************************************)
\* A quiet tick has just brought the location from another state to STABLE.
ReturnedToStable ==
    tick.ran /\ tick.preState # "STABLE" /\ economy.state = "STABLE"

\* A counter is at or above the threshold of one of the three tests of
\* EvaluateStateTransition.
CounterAtThreshold(e) ==
    \/ AtLeast(e.merchantLosses, e.config.merchantLossThreshold)
    \/ AtLeast(e.pirateLosses, e.config.pirateLossThreshold)
    \/ AtLeast(e.tradeVolume, e.config.tradeVolumeThreshold)
    \/ AtLeast(e.smugglingLevel, e.config.smugglingThreshold)

\* C37 as stated: with no further events and no NPC activity the daily ticks
\* bring the location to STABLE, and once a tick has brought it back to
\* STABLE it stays STABLE.
C37_StableOnceReachedIsKept ==
    /\ <>(economy.state = "STABLE")
    /\ [](ReturnedToStable => [](economy.state = "STABLE"))

\* C37, amended: with no further events and no NPC activity the daily ticks
\* bring the location to STABLE after finitely many ticks, and after
\* finitely many ticks it is STABLE and stays STABLE (before that, a tick
\* may take it out of STABLE again while a counter still reaches its
\* threshold).
C37_EventuallyStableForGood == <>[](economy.state = "STABLE")

\* A quiet tick has brought the location back to STABLE with every counter
\* below its threshold.
C37_Witness == ReturnedToStable /\ ~CounterAtThreshold(economy)

=============================================================================
